---- MODULE Spec2Model ----
(***************************************************************************)
(* The JSON-RPC-over-HTTP exchange of the Alloy MCP examples: the basic    *)
(* TypeScript client (AlloyMCPClient and main), the two Next.js API routes *)
(* (connect, execute), the browser-side MCPClient of the chat example and  *)
(* the chat page (ChatPage) that uses it.                                  *)
(*                                                                         *)
(* Text is a sequence of tokens.  A token is one character of interest     *)
(* ("LF", "CR", "LS" = U+2028, a quote, a brace) or an indivisible run of  *)
(* ordinary characters ("data: ", "event: message").  JavaScript values    *)
(* are records; a field that is absent is absent from the record's domain. *)
(***************************************************************************)
EXTENDS Integers, Sequences, FiniteSets, TLC

\* ------------------------------------------------------------------ bounds

\* Math.random ids of the routes are drawn from 0..MaxRandomId.
MaxRandomId == 1
\* Operations a caller starts on one AlloyMCPClient instance.
MaxCalls == 2
\* Operations the page starts on one MCPClient instance.
MaxOps == 3
\* What the user submits in the chat page, one after the other: messages
\* sent, server configurations saved.
MaxSends == 1
\* Clicks of the user on a tool of the tool panel.
MaxToggles == 2

\* ------------------------------------------------------------ JavaScript values

JsUndefined == [jsundefined |-> TRUE]
JsNull == [jsnull |-> TRUE]
EmptyObject == [k \in {} |-> 0]

\* Property access on undefined or null throws a TypeError.
IsNullish(v) == v = JsUndefined \/ v = JsNull

\* v.name, for a v that is not nullish: undefined when the property is absent.
HasProp(v, name) == name \in DOMAIN v

TypeError == [name |-> "TypeError", message |-> <<"Cannot read properties of undefined">>]
SyntaxError == [name |-> "SyntaxError", message |-> <<"Unexpected token in JSON">>]
FetchFailed == [name |-> "TypeError", message |-> <<"fetch failed">>]
NewError(msg) == [name |-> "Error", message |-> msg]
NoError == [name |-> "none", message |-> <<>>]

\* ------------------------------------------------------------------ text

\* The characters the regular expression's `.` does not match.
LineTerminators == {"LF", "CR", "LS"}
\* The characters JSON.parse skips around a value.
JsonWhitespace == {"LF", "CR", " "}

RECURSIVE Join(_, _)
Join(ss, sep) ==
  IF ss = <<>> THEN <<>>
  ELSE IF Len(ss) = 1 THEN Head(ss)
  ELSE Head(ss) \o sep \o Join(Tail(ss), sep)

Includes(text, token) == \E i \in DOMAIN text : text[i] = token

\* ------------------------------------------------------ the remote's values

\* The remote's errors.  Their messages are plain, with a newline, with
\* U+2028 LINE SEPARATOR, and empty.
RemoteErrors ==
  {<<-32601, <<"M">>>>, <<-32000, <<"M", "LF", "N">>>>, <<-32601, <<"M", "LS", "N">>>>,
   <<-32000, <<>>>>}

ToolDescriptor(n) == [name |-> n, description |-> <<"D">>]
ContentItem(s) == [type |-> "text", text |-> s]

RemoteResults ==
  {EmptyObject}
  \cup {[tools |-> ts] : ts \in {<<>>, <<ToolDescriptor("list_connectors_alloy")>>,
                                 <<ToolDescriptor("list_connectors_alloy"),
                                   ToolDescriptor("get_credentials_alloy")>>}}
  \cup {[content |-> <<ContentItem(s)>>] : s \in {<<"M">>, <<"M", "LS", "N">>}}
  \cup {[content |-> <<>>]}

ResultEnvelope(r) == [jsonrpc |-> "2.0", id |-> 1, result |-> r]
ErrorEnvelope(c, m) == [jsonrpc |-> "2.0", id |-> 1, error |-> [code |-> c, message |-> m]]
BareEnvelope == [jsonrpc |-> "2.0", id |-> 1]

Envelopes ==
  {ResultEnvelope(r) : r \in RemoteResults}
  \cup {ErrorEnvelope(e[1], e[2]) : e \in RemoteErrors}
  \cup {BareEnvelope}

\* Every value a response body can decode to.
JsonValues == Envelopes \cup {JsNull}

\* ------------------------------------------------------------------ JSON

\* JSON.stringify of one character of a string: a newline and a carriage
\* return are escaped, U+2028 is written as it is.
EscapeChar(c) ==
  IF c = "LF" THEN <<"\\n">>
  ELSE IF c = "CR" THEN <<"\\r">>
  ELSE <<c>>

RECURSIVE EscapeString(_)
EscapeString(s) == IF s = <<>> THEN <<>> ELSE EscapeChar(Head(s)) \o EscapeString(Tail(s))

StringifyString(s) == <<"\"">> \o EscapeString(s) \o <<"\"">>

StringifyTool(t) ==
  <<"{", "\"name\":", "\"", t.name, "\"", ",", "\"description\":">>
  \o StringifyString(t.description) \o <<"}">>

StringifyContent(c) ==
  <<"{", "\"type\":", "\"", c.type, "\"", ",", "\"text\":">>
  \o StringifyString(c.text) \o <<"}">>

StringifyTools(ts) ==
  <<"[">> \o Join([i \in DOMAIN ts |-> StringifyTool(ts[i])], <<",">>) \o <<"]">>

StringifyContents(cs) ==
  <<"[">> \o Join([i \in DOMAIN cs |-> StringifyContent(cs[i])], <<",">>) \o <<"]">>

StringifyResult(r) ==
  <<"{">>
  \o Join((IF HasProp(r, "tools") THEN <<<<"\"tools\":">> \o StringifyTools(r.tools)>> ELSE <<>>)
          \o (IF HasProp(r, "content")
              THEN <<<<"\"content\":">> \o StringifyContents(r.content)>> ELSE <<>>),
          <<",">>)
  \o <<"}">>

StringifyRemoteError(e) ==
  <<"{", "\"code\":", ToString(e.code), ",", "\"message\":">>
  \o StringifyString(e.message) \o <<"}">>

\* JSON.stringify of a value the remote sends, without indentation.
JSONstringify(v) ==
  IF v = JsNull THEN <<"null">>
  ELSE <<"{", "\"jsonrpc\":", "\"", v.jsonrpc, "\"", ",", "\"id\":", ToString(v.id)>>
       \o (IF HasProp(v, "result") THEN <<",", "\"result\":">> \o StringifyResult(v.result)
           ELSE <<>>)
       \o (IF HasProp(v, "error") THEN <<",", "\"error\":">> \o StringifyRemoteError(v.error)
           ELSE <<>>)
       \o <<"}">>

RECURSIVE TrimLeft(_)
TrimLeft(t) == IF t # <<>> /\ Head(t) \in JsonWhitespace THEN TrimLeft(Tail(t)) ELSE t

RECURSIVE TrimRight(_)
TrimRight(t) ==
  IF t # <<>> /\ t[Len(t)] \in JsonWhitespace THEN TrimRight(SubSeq(t, 1, Len(t) - 1)) ELSE t

\* JSON.parse over the texts of this model: whitespace around the value is
\* skipped, the value is the one whose text it is, any other text is a
\* syntax error.
JSONparseOk(text) == \E v \in JsonValues : JSONstringify(v) = TrimRight(TrimLeft(text))
JSONparse(text) == CHOOSE v \in JsonValues : JSONstringify(v) = TrimRight(TrimLeft(text))

\* ------------------------------------------------------- request envelope

JsZero == [jsnumber |-> 0]
JsFalse == [jsboolean |-> FALSE]
JsEmptyString == [jsstring |-> <<>>]

\* The values of JavaScript that `params && ...` treats as false.
Falsy == {JsUndefined, JsNull, JsZero, JsFalse, JsEmptyString}
Truthy(v) == v \notin Falsy

InitializeParams(clientName) ==
  [protocolVersion |-> "2024-11-05", capabilities |-> EmptyObject,
   clientInfo |-> [name |-> clientName, version |-> "1.0.0"]]
ToolCallParams(toolName, args) == [name |-> toolName, arguments |-> args]

SlackArgs == [connectorId |-> "slack"]
GoalArgs == [goal |-> "send a message to a Slack channel"]

\* The object literal of makeRequest: `...(params && { params })` adds the
\* params key only for a truthy params.
BuildRequestDefaultParams(method, id, params) ==
  [jsonrpc |-> "2.0", method |-> method, id |-> id,
   params |-> IF Truthy(params) THEN params ELSE EmptyObject]
BuildRequestAlways(method, id, params) ==
  IF params # JsUndefined
  THEN [jsonrpc |-> "2.0", method |-> method, id |-> id, params |-> params]
  ELSE [jsonrpc |-> "2.0", method |-> method, id |-> id]
BuildRequest(method, id, params) ==
  IF Truthy(params)
  THEN [jsonrpc |-> "2.0", method |-> method, id |-> id, params |-> params]
  ELSE [jsonrpc |-> "2.0", method |-> method, id |-> id]

StringifyArgs(a) ==
  IF a = EmptyObject THEN <<"{}">>
  ELSE IF HasProp(a, "connectorId") THEN <<"{", "\"connectorId\":", "\"", a.connectorId, "\"", "}">>
  ELSE <<"{", "\"goal\":", "\"", a.goal, "\"", "}">>

\* JSON.stringify of a params value.
StringifyParams(p) ==
  IF p = JsNull THEN <<"null">>
  ELSE IF p = JsZero THEN <<"0">>
  ELSE IF p = JsFalse THEN <<"false">>
  ELSE IF p = JsEmptyString THEN <<"\"", "\"">>
  ELSE IF p = EmptyObject THEN <<"{}">>
  ELSE IF HasProp(p, "protocolVersion")
  THEN <<"{", "\"protocolVersion\":", "\"", p.protocolVersion, "\"", ",",
         "\"capabilities\":", "{}", ",", "\"clientInfo\":", "{", "\"name\":", "\"",
         p.clientInfo.name, "\"", ",", "\"version\":", "\"", p.clientInfo.version, "\"",
         "}", "}">>
  ELSE IF HasProp(p, "arguments")
  THEN <<"{", "\"name\":", "\"", p.name, "\"", ",", "\"arguments\":">>
       \o StringifyArgs(p.arguments) \o <<"}">>
  ELSE StringifyArgs(p)

\* JSON.stringify(request): the keys in the order of the object literal; a
\* key whose value is undefined is left out.
StringifyRequest(req) ==
  <<"{", "\"jsonrpc\":", "\"", req.jsonrpc, "\"", ",", "\"method\":", "\"", req.method, "\"",
    ",", "\"id\":", ToString(req.id)>>
  \o (IF HasProp(req, "params") /\ req.params # JsUndefined
      THEN <<",", "\"params\":">> \o StringifyParams(req.params) ELSE <<>>)
  \o <<"}">>

\* ------------------------------------------------------------------ responses

Statuses ==
  {[status |-> 200, statusText |-> "OK"],
   [status |-> 404, statusText |-> "Not Found"],
   [status |-> 500, statusText |-> "Internal Server Error"]}

ContentTypes ==
  {<<"application/json">>, <<"text/event-stream">>,
   <<"text/event-stream", "; charset=utf-8">>}

Headers == {EmptyObject} \cup {[h \in {"content-type"} |-> ct] : ct \in ContentTypes}

\* The event-stream framing of the README: "event: message\ndata: {...}\n\n".
SseFrame(payload) == <<"event: message", "LF", "data: ">> \o payload \o <<"LF", "LF">>

JsonBodies == {JSONstringify(v) : v \in JsonValues}

Bodies ==
  JsonBodies
  \cup {JSONstringify(BareEnvelope) \o <<"LF">>}
  \cup {SseFrame(b) : b \in JsonBodies}
  \cup {<<"event: meta", "data: ", "x", "LF", "data: ">>
          \o JSONstringify(ResultEnvelope(EmptyObject)) \o <<"LF", "LF">>,
        <<"data: ">> \o JSONstringify(ResultEnvelope(EmptyObject))
          \o <<"LF", "data: ">> \o JSONstringify(BareEnvelope) \o <<"LF", "LF">>}
  \cup {<<"event: message", "LF", "LF">>,
        <<"data: ", "LF", "LF">>,
        <<"event: message", "LF", "data: ", "{", "\"jsonrpc\":", "LF", "LF">>,
        <<"<html>">>,
        <<>>}

Response(s, h, b) == [status |-> s.status, statusText |-> s.statusText, headers |-> h, body |-> b]

\* Every header and body with status 200; a few of them with the other statuses.
Responses ==
  {Response(s, h, b) : s \in {t \in Statuses : t.status = 200}, h \in Headers, b \in Bodies}
  \cup {Response(s, [k \in {"content-type"} |-> ct], b) :
          s \in {t \in Statuses : t.status # 200},
          ct \in {<<"application/json">>, <<"text/event-stream">>},
          b \in {JSONstringify(ResultEnvelope(EmptyObject)),
                 SseFrame(JSONstringify(ResultEnvelope(EmptyObject))), <<"<html>">>}}

\* fetch rejects: the connection could not be made.
NetworkFailure == [failed |-> TRUE]
Replies == Responses \cup {NetworkFailure}

\* response.ok
ResponseOk(resp) == resp.status >= 200 /\ resp.status <= 299

\* contentType?.includes("text/event-stream")
IsEventStream(resp) ==
  /\ HasProp(resp.headers, "content-type")
  /\ Includes(resp.headers["content-type"], "text/event-stream")

\* text.match(/data: (.+)/): the places where "data: " is followed by at
\* least one character that `.` matches.
MatchPositions(text) ==
  {i \in 1..(Len(text) - 1) : text[i] = "data: " /\ text[i + 1] \notin LineTerminators}

RECURSIVE RunEnd(_, _)
RunEnd(text, i) ==
  IF i + 1 <= Len(text) /\ text[i + 1] \notin LineTerminators THEN RunEnd(text, i + 1) ELSE i

HasDataMatch(text) == MatchPositions(text) # {}

\* dataMatch[1]: the greedy capture of the first match.
DataCapture(text) ==
  LET first == CHOOSE i \in MatchPositions(text) : \A j \in MatchPositions(text) : i <= j
  IN SubSeq(text, first + 1, RunEnd(text, first + 1))

Return(v) == [kind |-> "return", value |-> v, error |-> NoError]
Throw(e) == [kind |-> "throw", value |-> JsUndefined, error |-> e]

\* What became of a response body: which reader was awaited, and whether
\* JSON.parse (or response.json's parser) ran.
Made(outcome, read, parsed) ==
  [kind |-> outcome.kind, value |-> outcome.value, error |-> outcome.error,
   read |-> read, parsed |-> parsed]

ParseOutcome(text) == IF JSONparseOk(text) THEN Return(JSONparse(text)) ELSE Throw(SyntaxError)

HttpError(resp) == NewError(<<"HTTP ", ToString(resp.status), ": ", resp.statusText>>)

\* makeRequest from the resolution of fetch to its return or throw.
DecodeResponseNoStatusCheck(reply) ==
  IF reply = NetworkFailure THEN Made(Throw(FetchFailed), "none", FALSE)
  ELSE IF IsEventStream(reply)
  THEN IF HasDataMatch(reply.body)
       THEN Made(ParseOutcome(DataCapture(reply.body)), "text", TRUE)
       ELSE Made(Return(JsUndefined), "text", FALSE)
  ELSE Made(ParseOutcome(reply.body), "json", TRUE)
DecodeResponse(reply) ==
  IF reply = NetworkFailure THEN Made(Throw(FetchFailed), "none", FALSE)
  ELSE IF ~ResponseOk(reply) THEN Made(Throw(HttpError(reply)), "none", FALSE)
  ELSE IF IsEventStream(reply)
  THEN IF HasDataMatch(reply.body)
       THEN Made(ParseOutcome(DataCapture(reply.body)), "text", TRUE)
       ELSE Made(Return(JsUndefined), "text", FALSE)
  ELSE Made(ParseOutcome(reply.body), "json", TRUE)

\* ------------------------------------------------ AlloyMCPClient (basic example)

JsArray(items) == [array |-> items]

Url == "https://mcp.example/mcp/token"
\* process.env.NEXT_PUBLIC_MCP_SERVER_URL: not set, set to nothing, set.
EnvValues == {"<unset>", "", Url}
\* process.env.X || ""
OrEmpty(v) == IF v = "<unset>" THEN "" ELSE v

NoClient == [constructed |-> FALSE]

\* new AlloyMCPClient()
AlloyMCPClientNew(envUrl) ==
  IF OrEmpty(envUrl) = ""
  THEN Throw(NewError(<<"NEXT_PUBLIC_MCP_SERVER_URL environment variable is required">>))
  ELSE Return([constructed |-> TRUE, serverUrl |-> OrEmpty(envUrl), requestId |-> 1])

\* The three lines every operation has after its makeRequest: a throw of
\* makeRequest is thrown on, `response.error` of undefined or null is a
\* TypeError, an error envelope becomes an Error of the prefix and the
\* remote message.
FailureOf(made, prefix) ==
  IF made.kind = "throw" THEN Throw(made.error)
  ELSE IF IsNullish(made.value) THEN Throw(TypeError)
  ELSE Throw(NewError(<<prefix>> \o made.value.error.message))

Fails(made) ==
  \/ made.kind = "throw"
  \/ IsNullish(made.value)
  \/ HasProp(made.value, "error")

\* response.result?.<field> || []
ResultField(v, field) ==
  IF HasProp(v, "result") /\ HasProp(v.result, field) THEN v.result[field] ELSE <<>>

initialize(made) ==
  IF Fails(made) THEN FailureOf(made, "Initialization failed: ") ELSE Return(JsUndefined)

listAvailableToolsStrict(made) ==
  IF Fails(made) THEN FailureOf(made, "Failed to list tools: ")
  ELSE IF HasProp(made.value, "result") /\ HasProp(made.value.result, "tools")
  THEN Return(JsArray(made.value.result.tools))
  ELSE Throw(TypeError)
listAvailableTools(made) ==
  IF Fails(made) THEN FailureOf(made, "Failed to list tools: ")
  ELSE Return(JsArray(ResultField(made.value, "tools")))

listResources(made) ==
  IF Fails(made) THEN FailureOf(made, "Failed to list resources: ") ELSE Return(JsUndefined)

executeToolFixedMessage(made) ==
  IF made.kind = "return" /\ ~IsNullish(made.value) /\ HasProp(made.value, "error")
  THEN Throw(NewError(<<"Tool execution failed">>))
  ELSE IF Fails(made) THEN FailureOf(made, "Tool execution failed: ")
  ELSE Return(IF HasProp(made.value, "result") THEN made.value.result ELSE JsUndefined)
executeToolContentOnly(made) ==
  IF Fails(made) THEN FailureOf(made, "Tool execution failed: ")
  ELSE Return(JsArray(ResultField(made.value, "content")))
executeTool(made) ==
  IF Fails(made) THEN FailureOf(made, "Tool execution failed: ")
  ELSE Return(IF HasProp(made.value, "result") THEN made.value.result ELSE JsUndefined)

listPrompts(made) ==
  IF Fails(made) THEN FailureOf(made, "Failed to list prompts: ")
  ELSE Return(JsArray(ResultField(made.value, "prompts")))

\* What the operation `op` of the client makes of its makeRequest.
OpOutcome(op, made) ==
  CASE op = "initialize" -> initialize(made)
    [] op = "listAvailableTools" -> listAvailableTools(made)
    [] op = "listResources" -> listResources(made)
    [] op = "executeTool" -> executeTool(made)
    [] op = "listPrompts" -> listPrompts(made)
    [] OTHER -> [kind |-> made.kind, value |-> made.value, error |-> made.error]

Invocation(op, method, params) == [op |-> op, method |-> method, params |-> params]

InitializeCall == Invocation("initialize", "initialize", InitializeParams("alloy-mcp-basic-example"))
ListToolsCall == Invocation("listAvailableTools", "tools/list", JsUndefined)
ListResourcesCall == Invocation("listResources", "resources/list", JsUndefined)
ListPromptsCall == Invocation("listPrompts", "prompts/list", JsUndefined)
ExecuteToolCall(name, args) == Invocation("executeTool", "tools/call", ToolCallParams(name, args))

\* What a caller of the client can start: every public operation, and
\* makeRequest itself with every kind of params value.
ApiInvocations ==
  {InitializeCall, ListToolsCall, ListResourcesCall, ListPromptsCall}
  \cup {ExecuteToolCall("list_connectors_alloy", a) : a \in {EmptyObject, SlackArgs}}
  \cup {Invocation("makeRequest", "tools/list", p) : p \in Falsy \cup {EmptyObject, SlackArgs}}

\* ------------------------------------------------------------------ main

MainPositions ==
  {"initialize", "listAvailableTools", "connectivity1", "connectivity2", "credentials1",
   "credentials2", "discovery1", "discovery2"}

\* The call main (or the demonstration it is in) makes at a position.
MainCallAt(pos) ==
  CASE pos = "initialize" -> InitializeCall
    [] pos = "listAvailableTools" -> ListToolsCall
    [] pos = "connectivity1" -> ExecuteToolCall("list_connectors_alloy", EmptyObject)
    [] pos = "connectivity2" -> ExecuteToolCall("get_connector_resources_alloy", SlackArgs)
    [] pos = "credentials1" -> ExecuteToolCall("get_credentials_alloy", SlackArgs)
    [] pos = "credentials2" -> ExecuteToolCall("get_credential_metadata_alloy", SlackArgs)
    [] pos = "discovery1" -> ListPromptsCall
    [] pos = "discovery2" -> ExecuteToolCall("discover_action_path_alloy", GoalArgs)

MainAfterIgnoringFailure(pos, ok) ==
  CASE pos = "initialize" -> "listAvailableTools"
    [] pos = "listAvailableTools" -> "connectivity1"
    [] pos = "connectivity1" -> IF ok THEN "connectivity2" ELSE "credentials1"
    [] pos = "connectivity2" -> "credentials1"
    [] pos = "credentials1" -> IF ok THEN "credentials2" ELSE "discovery1"
    [] pos = "credentials2" -> "discovery1"
    [] pos = "discovery1" -> IF ok THEN "discovery2" ELSE "completed"
    [] pos = "discovery2" -> "completed"

MainAfterToolsListContained(pos, ok) ==
  CASE pos = "initialize" -> IF ok THEN "listAvailableTools" ELSE "exited"
    [] pos = "listAvailableTools" -> "connectivity1"
    [] pos = "connectivity1" -> IF ok THEN "connectivity2" ELSE "credentials1"
    [] pos = "connectivity2" -> "credentials1"
    [] pos = "credentials1" -> IF ok THEN "credentials2" ELSE "discovery1"
    [] pos = "credentials2" -> "discovery1"
    [] pos = "discovery1" -> IF ok THEN "discovery2" ELSE "completed"
    [] pos = "discovery2" -> "completed"

MainAfterDemonstrationFailureExits(pos, ok) ==
  CASE pos = "initialize" -> IF ok THEN "listAvailableTools" ELSE "exited"
    [] pos = "listAvailableTools" -> IF ok THEN "connectivity1" ELSE "exited"
    [] pos = "connectivity1" -> IF ok THEN "connectivity2" ELSE "exited"
    [] pos = "connectivity2" -> IF ok THEN "credentials1" ELSE "exited"
    [] pos = "credentials1" -> IF ok THEN "credentials2" ELSE "exited"
    [] pos = "credentials2" -> IF ok THEN "discovery1" ELSE "exited"
    [] pos = "discovery1" -> IF ok THEN "discovery2" ELSE "exited"
    [] pos = "discovery2" -> IF ok THEN "completed" ELSE "exited"

\* Where main goes after the call at `pos` returned (ok) or threw: main's
\* catch exits, a demonstration's catch ends that demonstration.
MainAfter(pos, ok) ==
  CASE pos = "initialize" -> IF ok THEN "listAvailableTools" ELSE "exited"
    [] pos = "listAvailableTools" -> IF ok THEN "connectivity1" ELSE "exited"
    [] pos = "connectivity1" -> IF ok THEN "connectivity2" ELSE "credentials1"
    [] pos = "connectivity2" -> "credentials1"
    [] pos = "credentials1" -> IF ok THEN "credentials2" ELSE "discovery1"
    [] pos = "credentials2" -> "discovery1"
    [] pos = "discovery1" -> IF ok THEN "discovery2" ELSE "completed"
    [] pos = "discovery2" -> "completed"

\* ------------------------------------------------ MCPClient and the routes (chat)

\* new MCPClient(config): the constructor stores the config.
MCPClientNew(config) ==
  [constructed |-> TRUE, config |-> config, connected |-> FALSE, availableTools |-> <<>>]

\* name.includes(word), for the tool names of this model.
NameIncludes(name, word) ==
  <<name, word>> \in
    {<<"list_connectors_alloy", "connector">>, <<"get_connector_resources_alloy", "connector">>,
     <<"get_credentials_alloy", "credential">>, <<"get_credential_metadata_alloy", "credential">>,
     <<"discover_action_path_alloy", "discover">>}

getCategoryFromToolName(name) ==
  IF NameIncludes(name, "connector") \/ NameIncludes(name, "credential") THEN "connectivity"
  ELSE IF NameIncludes(name, "workflow") \/ NameIncludes(name, "embedded") THEN "embedded"
  ELSE IF NameIncludes(name, "discover") THEN "discovery"
  ELSE "general"

TransformTool(t) ==
  [name |-> t.name, description |-> t.description, category |-> getCategoryFromToolName(t.name)]

\* String(error), as the template `${error}` of the routes' catch makes it.
ErrorToString(e) == <<e.name, ": ">> \o e.message

Answer(status, data) == [status |-> status, data |-> data]
NoAnswer == Answer(0, EmptyObject)
Answer400(text) == Answer(400, [error |-> <<text>>])
Answer500(prefix, e) == Answer(500, [error |-> <<prefix>> \o ErrorToString(e)])

\* The connect route after its initialize exchange.
ConnectAfterInitialize(made) ==
  IF Fails(made) THEN FailureOf(made, "Initialization failed: ") ELSE Return(JsUndefined)

\* The connect route after its tools/list exchange: the transformed tools.
ConnectAfterToolsListIgnoringFailure(made) ==
  IF Fails(made) THEN Return(JsArray(<<>>))
  ELSE Return(JsArray([i \in DOMAIN ResultField(made.value, "tools") |->
                         TransformTool(ResultField(made.value, "tools")[i])]))
ConnectAfterToolsList(made) ==
  IF Fails(made) THEN FailureOf(made, "Failed to list tools: ")
  ELSE Return(JsArray([i \in DOMAIN ResultField(made.value, "tools") |->
                         TransformTool(ResultField(made.value, "tools")[i])]))

\* The execute route after its tools/call exchange.
ExecuteAfterToolsCall(made) ==
  IF Fails(made) THEN FailureOf(made, "Tool execution failed: ")
  ELSE Return(JsArray(ResultField(made.value, "content")))

ConnectAnswer(done) ==
  IF done.kind = "throw" THEN Answer500("Failed to connect to MCP server: ", done.error)
  ELSE Answer(200, [success |-> TRUE, tools |-> done.value.array])

ExecuteAnswer(done) ==
  IF done.kind = "throw" THEN Answer500("Failed to execute tool: ", done.error)
  ELSE Answer(200, [content |-> done.value.array])

AnswerOk(answer) == answer.status >= 200 /\ answer.status <= 299

\* MCPClient.connect after its fetch: the client's fields and the outcome.
ConnectReceive(m, answer) ==
  IF ~AnswerOk(answer)
  THEN [mcp |-> m, outcome |-> Throw(NewError(<<"Failed to connect to MCP server">>))]
  ELSE [mcp |-> [m EXCEPT !.availableTools =
                            IF HasProp(answer.data, "tools") THEN answer.data.tools ELSE <<>>,
                          !.connected = TRUE],
        outcome |-> Return(JsUndefined)]

\* How a fetch of the MCPClient ends: with the answer of the route, with a
\* rejection (the network), with a 2xx answer whose body is not JSON.
FetchWays == {"route", "unreachable", "undecodable"}
\* What the `await fetch(...)` or the `await response.json()` throws.
FetchError(way) == IF way = "unreachable" THEN FetchFailed ELSE SyntaxError

\* catch of MCPClient.executeTool
ExecuteCaughtRethrown(error) == Throw(error)
ExecuteCaught(error) == Return([content |-> [error |-> error.message], isError |-> TRUE])

\* MCPClient.executeTool after its fetch: a failure is caught and returned.
ExecuteReceiveEmpty(name, answer) ==
  IF ~AnswerOk(answer)
  THEN Return([content |-> [error |-> <<"Failed to execute tool: ", name>>], isError |-> TRUE])
  ELSE Return([content |-> JsArray(<<>>), isError |-> FALSE])
ExecuteReceive(name, answer) ==
  IF ~AnswerOk(answer)
  THEN ExecuteCaught(NewError(<<"Failed to execute tool: ", name>>))
  ELSE Return([content |-> IF HasProp(answer.data, "content")
                           THEN JsArray(answer.data.content) ELSE JsUndefined,
               isError |-> FALSE])

\* ------------------------------------------------------ ChatPage (chat example)

\* String.prototype.toLowerCase, for the words of this model.
ToLowerCase(word) ==
  IF word = "Slack" THEN "slack" ELSE IF word = "Hello" THEN "hello" ELSE word

\* A word of a message has `part` in it.
WordIncludes(word, part) ==
  \/ word = part
  \/ <<word, part>> \in {<<"connectors", "connector">>, <<"authentication", "auth">>,
                         <<"list integrations", "integration">>}

\* message.toLowerCase().includes(part)
MessageIncludes(message, part) ==
  \E i \in DOMAIN message : WordIncludes(ToLowerCase(message[i]), part)

ConnectorWords == {"slack", "salesforce", "hubspot", "shopify"}

\* message.match(/\b(slack|salesforce|hubspot|shopify)\b/i): the places of
\* the whole words that match.
ConnectorMatches(message) == {i \in DOMAIN message : ToLowerCase(message[i]) \in ConnectorWords}

\* connectorMatch[1].toLowerCase()
ConnectorMatch(message) ==
  ToLowerCase(message[CHOOSE i \in ConnectorMatches(message) :
                        \A j \in ConnectorMatches(message) : i <= j])

\* availableTools.includes(name), for the array of names handed in.
NamesInclude(names, name) == \E i \in DOMAIN names : names[i] = name

ToolToInvoke(name, args) == [name |-> name, arguments |-> args]

\* MCPClient.determineTools(message, availableTools): the four heuristics, in
\* the order of the pushes.
determineToolsIgnoringSelection(message, availableTools) ==
  (IF MessageIncludes(message, "connector") \/ MessageIncludes(message, "integration")
   THEN <<ToolToInvoke("list_connectors_alloy", EmptyObject)>> ELSE <<>>)
  \o (IF (MessageIncludes(message, "credential") \/ MessageIncludes(message, "auth"))
         /\ ConnectorMatches(message) # {}
      THEN <<ToolToInvoke("get_credentials_alloy", [connectorId |-> ConnectorMatch(message)])>>
      ELSE <<>>)
determineTools(message, availableTools) ==
  (IF (\/ MessageIncludes(message, "connector")
       \/ MessageIncludes(message, "integration")
       \/ MessageIncludes(message, "list integrations"))
      /\ NamesInclude(availableTools, "list_connectors_alloy")
   THEN <<ToolToInvoke("list_connectors_alloy", EmptyObject)>> ELSE <<>>)
  \o (IF (\/ MessageIncludes(message, "credential")
          \/ MessageIncludes(message, "auth")
          \/ MessageIncludes(message, "authentication"))
         /\ ConnectorMatches(message) # {}
         /\ NamesInclude(availableTools, "get_credentials_alloy")
      THEN <<ToolToInvoke("get_credentials_alloy", [connectorId |-> ConnectorMatch(message)])>>
      ELSE <<>>)
  \o (IF (\/ MessageIncludes(message, "discover")
          \/ MessageIncludes(message, "how to")
          \/ MessageIncludes(message, "send message"))
         /\ NamesInclude(availableTools, "discover_action_path_alloy")
      THEN <<ToolToInvoke("discover_action_path_alloy", [goal |-> message])>> ELSE <<>>)
  \o (IF MessageIncludes(message, "slack")
         /\ NamesInclude(availableTools, "get_connector_resources_alloy")
      THEN <<ToolToInvoke("get_connector_resources_alloy", [connectorId |-> "slack"])>>
      ELSE <<>>)

\* JSON.stringify of the content of a ToolResult: the array of the route's
\* answer, or the {error: message} of executeTool's catch.
StringifyToolContent(c) ==
  IF HasProp(c, "array") THEN StringifyContents(c.array)
  ELSE <<"{", "\"error\":">> \o StringifyString(c.error) \o <<"}">>

\* JSON.stringify(value, null, 2) from the text without indentation: a line
\* and two spaces for each level after an opening bracket and a comma, a line
\* before a closing bracket, a space after the colon of a key; an empty array
\* or object stays as it is.
JsonKeys == {"\"content\":", "\"isError\":", "\"error\":", "\"type\":", "\"text\":"}

RECURSIVE Spaces(_)
Spaces(depth) == IF depth = 0 THEN <<>> ELSE <<"  ">> \o Spaces(depth - 1)

RECURSIVE PrettyJson(_, _)
PrettyJson(text, depth) ==
  IF text = <<>> THEN <<>>
  ELSE LET t == Head(text)
           rest == Tail(text)
       IN IF t \in {"{", "["}
          THEN IF rest # <<>> /\ Head(rest) \in {"}", "]"}
               THEN <<t, Head(rest)>> \o PrettyJson(Tail(rest), depth)
               ELSE <<t, "LF">> \o Spaces(depth + 1) \o PrettyJson(rest, depth + 1)
          ELSE IF t \in {"}", "]"}
          THEN <<"LF">> \o Spaces(depth - 1) \o <<t>> \o PrettyJson(rest, depth - 1)
          ELSE IF t = ","
          THEN <<t, "LF">> \o Spaces(depth) \o PrettyJson(rest, depth)
          ELSE IF t \in JsonKeys
          THEN <<t, " ">> \o PrettyJson(rest, depth)
          ELSE <<t>> \o PrettyJson(rest, depth)

\* JSON.stringify(toolResult, null, 2); a content that is undefined is left out.
StringifyToolResult(r) ==
  PrettyJson(<<"{">>
             \o (IF HasProp(r, "content") /\ r.content # JsUndefined
                 THEN <<"\"content\":">> \o StringifyToolContent(r.content) \o <<",">>
                 ELSE <<>>)
             \o <<"\"isError\":", IF r.isError THEN "true" ELSE "false", "}">>, 0)

\* The three sentences generateResponse picks from with Math.random.
SimpleResponses ==
  {<<"I can help you with Alloy integrations and workflows.">>,
   <<"Let me check that for you using the available tools.">>,
   <<"I've processed your request using Alloy MCP.">>}

\* MCPClient.generateResponse(messages, currentMessage, toolResults), for the
\* sentence Math.random picked.
generateResponse(toolResults, picked) ==
  IF toolResults # JsUndefined /\ Len(toolResults.array) > 0
  THEN <<"Based on the tool execution results, here's what I found:", "LF", "LF">>
       \o StringifyToolResult(toolResults.array[1])
  ELSE picked

\* ------------------------------------------------------------------ state

VARIABLES
  program,   \* which executable runs: "api" (a caller of AlloyMCPClient),
             \* "main" (the basic example's script), "chat" (MCPClient and routes),
             \* "page" (ChatPage with its MCPClient)
  env,       \* process.env.NEXT_PUBLIC_MCP_SERVER_URL
  pc,        \* where the caller is
  client,    \* the AlloyMCPClient instance: serverUrl, requestId
  call,      \* the operation of the client that awaits its fetch
  wire,      \* the requests POSTed to the MCP server by the client, in order
  calls,     \* how many operations were started
  last,      \* the makeRequest call that just ended: request, reply, outcome
  exitCode,  \* of the basic example's process
  mcp,       \* the MCPClient instance: config, connected, availableTools
  ops,       \* the MCPClient operations that await the answer of a route
  fetches,   \* how many requests the MCPClient sent to the routes
  lastOp,    \* the MCPClient operation that ended last
  page,      \* the state of ChatPage: mcpClient, availableTools, selectedTools,
             \* isLoading, messages
  send,      \* the handleSend that runs, or the one that ended last; whether a
             \* handleSend returned at its guard since that one began
  connecting,    \* the MCPClient that a running initializeMCP constructed
  localStorage   \* the item "alloy-mcp-config" of the browser's localStorage

vars ==
  <<program, env, pc, client, call, wire, calls, last, exitCode, mcp, ops, fetches, lastOp,
    page, send, connecting, localStorage>>
basicVars == <<client, call, wire, exitCode>>
chatVars == <<mcp, ops, fetches, lastOp>>
pageVars == <<page, send, connecting, localStorage>>

NoCall == [op |-> "none"]
NoLast == [site |-> "none"]
NoOp == [kind |-> "none"]
NoSend == [phase |-> "none", refused |-> FALSE]
NoItem == [present |-> FALSE]

\* useState of ChatPage: no client, no tools, nothing selected, no messages.
NewPage ==
  [mcpClient |-> FALSE, availableTools |-> <<>>, selectedTools |-> <<>>, isLoading |-> FALSE,
   messages |-> <<>>, toggled |-> 0]

\* The caller of MCPClient awaits one operation before it starts the next.
Slots == {1}

Init ==
  /\ program \in {"api", "main", "chat", "page"}
  /\ env \in EnvValues
  /\ pc = "construct"
  /\ client = NoClient
  /\ call = NoCall
  /\ wire = <<>>
  /\ calls = 0
  /\ last = NoLast
  /\ exitCode = "running"
  /\ mcp = NoClient
  /\ ops = [s \in Slots |-> NoOp]
  /\ fetches = 0
  /\ lastOp = NoOp
  /\ page = NewPage
  /\ send = NoSend
  /\ connecting = NoClient
  /\ localStorage = NoItem

\* ------------------------------------------------- the basic example's steps

\* `new AlloyMCPClient()` by a caller of the class.
ApiConstruct ==
  /\ program = "api" /\ pc = "construct"
  /\ LET made == AlloyMCPClientNew(env)
     IN IF made.kind = "throw"
        THEN pc' = "constructFailed" /\ UNCHANGED client
        ELSE pc' = "ready" /\ client' = made.value
  /\ UNCHANGED <<pageVars, program, env, call, wire, calls, last, exitCode, chatVars>>

\* One POST to the MCP server, and how its exchange ended: "pending", "ok"
\* (an envelope without error came back) or "failed".
Posted(url, request) ==
  [url |-> url, method |-> request.method, id |-> request.id, outcome |-> "pending"]
Ended(posts, made) ==
  [posts EXCEPT ![Len(posts)].outcome = IF Fails(made) THEN "failed" ELSE "ok"]

\* makeRequest up to its `await fetch(...)`: the envelope takes the counter's
\* value, the counter advances, the body goes out.
Send(inv) ==
  LET request == BuildRequest(inv.method, client.requestId, inv.params)
  IN /\ client' = [client EXCEPT !.requestId = @ + 1]
     /\ call' = [op |-> inv.op, method |-> inv.method, params |-> inv.params,
                 request |-> request, body |-> StringifyRequest(request),
                 sentBefore |-> Len(wire)]
     /\ wire' = Append(wire, Posted(client.serverUrl, request))
     /\ calls' = calls + 1
     /\ last' = NoLast

\* makeRequest from the resolution of its fetch, and the rest of the
\* operation that called it.
Finish(reply) ==
  LET made == DecodeResponse(reply)
  IN /\ last' = [site |-> "basic", op |-> call.op, method |-> call.method,
                 params |-> call.params, request |-> call.request, body |-> call.body,
                 reply |-> reply, made |-> made, done |-> OpOutcome(call.op, made),
                 posts |-> Len(wire) - call.sentBefore]
     /\ wire' = Ended(wire, made)
     /\ call' = NoCall

ApiCallWhilePending ==
  /\ program = "api" /\ pc = "ready" /\ calls < MaxCalls
  /\ \E inv \in ApiInvocations : Send(inv)
  /\ UNCHANGED <<pageVars, program, env, pc, exitCode, chatVars>>
ApiCall ==
  /\ program = "api" /\ pc = "ready" /\ call = NoCall /\ calls < MaxCalls
  /\ \E inv \in ApiInvocations : Send(inv)
  /\ UNCHANGED <<pageVars, program, env, pc, exitCode, chatVars>>

ApiReplyRetry ==
  /\ program = "api" /\ call # NoCall
  /\ \E reply \in Replies :
       IF reply = NetworkFailure /\ Len(wire) - call.sentBefore < 2
       THEN /\ wire' = Append(wire, Posted(client.serverUrl, call.request))
            /\ UNCHANGED <<last, call>>
       ELSE Finish(reply)
  /\ UNCHANGED <<pageVars, program, env, pc, client, calls, exitCode, chatVars>>
ApiReply ==
  /\ program = "api" /\ call # NoCall
  /\ \E reply \in Replies : Finish(reply)
  /\ UNCHANGED <<pageVars, program, env, pc, client, calls, exitCode, chatVars>>

\* main: `new AlloyMCPClient()` inside main's try.
MainConstruct ==
  /\ program = "main" /\ pc = "construct"
  /\ LET made == AlloyMCPClientNew(env)
     IN IF made.kind = "throw"
        THEN pc' = "exited" /\ exitCode' = "1" /\ UNCHANGED client
        ELSE pc' = "initialize" /\ client' = made.value /\ UNCHANGED exitCode
  /\ UNCHANGED <<pageVars, program, env, call, wire, calls, last, chatVars>>

MainCall ==
  /\ program = "main" /\ pc \in MainPositions /\ call = NoCall
  /\ Send(MainCallAt(pc))
  /\ UNCHANGED <<pageVars, program, env, pc, exitCode, chatVars>>

MainReply ==
  /\ program = "main" /\ call # NoCall
  /\ \E reply \in Replies :
       /\ Finish(reply)
       /\ pc' = MainAfter(pc, OpOutcome(call.op, DecodeResponse(reply)).kind = "return")
  /\ exitCode' = IF pc' = "exited" THEN "1" ELSE IF pc' = "completed" THEN "0" ELSE exitCode
  /\ UNCHANGED <<pageVars, program, env, client, calls, chatVars>>

\* ------------------------------------------------------- the chat example's steps

ApiKey == "key"

\* `new MCPClient({serverUrl: process.env... || "", apiKey: ...})`, as
\* initializeMCP of the page constructs it.
ChatConstruct ==
  /\ program = "chat" /\ pc = "construct"
  /\ mcp' = MCPClientNew([serverUrl |-> OrEmpty(env), apiKey |-> ApiKey])
  /\ pc' = "ready"
  /\ UNCHANGED <<pageVars, program, env, basicVars, calls, last, fetches, ops, lastOp>>

RandomIds == 0..MaxRandomId

FreeSlot == CHOOSE s \in Slots : ops[s] = NoOp /\ \A t \in Slots : ops[t] = NoOp => s <= t

\* An operation of an MCPClient; its fetch carries the client's serverUrl.
NewOpOf(serverUrl, kind, toolName, args) ==
  [kind |-> kind, phase |-> "new", serverUrl |-> serverUrl, toolName |-> toolName,
   args |-> args, params |-> JsUndefined, request |-> EmptyObject, sent |-> <<>>,
   invoked |-> 0, answer |-> NoAnswer]
NewOp(kind, toolName, args) == NewOpOf(mcp.config.serverUrl, kind, toolName, args)

\* makeRequest of a route up to its `await fetch(...)`: a random id.
RouteSend(op, method, id, params) ==
  [op EXCEPT !.phase = method,
             !.params = params,
             !.request = BuildRequest(method, id, params),
             !.sent = Append(@, Posted(op.serverUrl, BuildRequest(method, id, params))),
             !.invoked = @ + 1]

RouteAnswer(op, answer) == [op EXCEPT !.phase = "answered", !.answer = answer]

\* POST of the connect route up to its first exchange.
ConnectRouteStart(op, id) ==
  IF op.serverUrl = "" THEN RouteAnswer(op, Answer400("Missing server URL"))
  ELSE RouteSend(op, "initialize", id, InitializeParams("alloy-mcp-nextjs-chat"))

\* POST of the execute route up to its exchange.
ExecuteRouteStartUnchecked(op, id) ==
  RouteSend(op, "tools/call", id,
            ToolCallParams(op.toolName, IF Truthy(op.args) THEN op.args ELSE EmptyObject))
ExecuteRouteStart(op, id) ==
  IF op.serverUrl = "" \/ op.toolName = "" THEN RouteAnswer(op, Answer400("Missing required parameters"))
  ELSE RouteSend(op, "tools/call", id,
                 ToolCallParams(op.toolName, IF Truthy(op.args) THEN op.args ELSE EmptyObject))

\* MCPClient.connect and MCPClient.getAvailableTools up to the fetch of the
\* connect route, and that route up to its first exchange.  A connected
\* client returns at once.
McpConnectAlwaysFetching ==
  /\ program = "chat" /\ pc = "ready" /\ calls < MaxOps
  /\ \E s \in Slots : ops[s] = NoOp
  /\ \E kind \in {"connect", "getAvailableTools"}, id \in RandomIds :
       ops' = [ops EXCEPT ![FreeSlot] = ConnectRouteStart(NewOp(kind, "", EmptyObject), id)]
  /\ fetches' = fetches + 1
  /\ lastOp' = NoOp
  /\ calls' = calls + 1
  /\ last' = NoLast
  /\ UNCHANGED <<pageVars, program, env, pc, basicVars, mcp>>
McpConnect ==
  /\ program = "chat" /\ pc = "ready" /\ calls < MaxOps
  /\ \E s \in Slots : ops[s] = NoOp
  /\ \E kind \in {"connect", "getAvailableTools"} :
       IF mcp.connected
       THEN /\ lastOp' = [kind |-> kind, fetched |-> FALSE,
                          outcome |-> IF kind = "connect" THEN Return(JsUndefined)
                                      ELSE Return(JsArray(mcp.availableTools))]
            /\ UNCHANGED <<ops, fetches>>
       ELSE /\ \E id \in RandomIds, way \in FetchWays :
                 ops' = [ops EXCEPT ![FreeSlot] =
                           IF way = "route" THEN ConnectRouteStart(NewOp(kind, "", EmptyObject), id)
                           ELSE [NewOp(kind, "", EmptyObject) EXCEPT !.phase = way]]
            /\ fetches' = fetches + 1
            /\ lastOp' = NoOp
  /\ calls' = calls + 1
  /\ last' = NoLast
  /\ UNCHANGED <<pageVars, program, env, pc, basicVars, mcp>>

ToolNameInputs == {"list_connectors_alloy", ""}
ToolArgInputs == {JsUndefined, EmptyObject, SlackArgs}

\* MCPClient.executeTool up to the fetch of the execute route, and that
\* route up to its exchange.  A client that is not connected throws.
McpExecuteTool ==
  /\ program = "chat" /\ pc = "ready" /\ calls < MaxOps
  /\ \E s \in Slots : ops[s] = NoOp
  /\ \E name \in ToolNameInputs, args \in ToolArgInputs :
       IF ~mcp.connected
       THEN /\ lastOp' = [kind |-> "executeTool", fetched |-> FALSE,
                          outcome |-> Throw(NewError(<<"Not connected to MCP server">>))]
            /\ UNCHANGED <<ops, fetches>>
       ELSE /\ \E id \in RandomIds, way \in FetchWays :
                 ops' = [ops EXCEPT ![FreeSlot] =
                           IF way = "route" THEN ExecuteRouteStart(NewOp("executeTool", name, args), id)
                           ELSE [NewOp("executeTool", name, args) EXCEPT !.phase = way]]
            /\ fetches' = fetches + 1
            /\ lastOp' = NoOp
  /\ calls' = calls + 1
  /\ last' = NoLast
  /\ UNCHANGED <<pageVars, program, env, pc, basicVars, mcp>>

\* MCPClient.disconnect: nothing happens to a client that is not connected.
McpDisconnectKeepingTools ==
  /\ program = "chat" /\ pc = "ready"
  /\ mcp' = IF mcp.connected THEN [mcp EXCEPT !.connected = FALSE] ELSE mcp
  /\ lastOp' = [kind |-> "disconnect", fetched |-> FALSE, outcome |-> Return(JsUndefined)]
  /\ last' = NoLast
  /\ UNCHANGED <<pageVars, program, env, pc, basicVars, calls, ops, fetches>>
McpDisconnect ==
  /\ program = "chat" /\ pc = "ready"
  /\ mcp' = IF mcp.connected THEN [mcp EXCEPT !.connected = FALSE, !.availableTools = <<>>]
            ELSE mcp
  /\ lastOp' = [kind |-> "disconnect", fetched |-> FALSE, outcome |-> Return(JsUndefined)]
  /\ last' = NoLast
  /\ UNCHANGED <<pageVars, program, env, pc, basicVars, calls, ops, fetches>>

RouteSite(op) == IF op.kind = "executeTool" THEN "execute" ELSE "connect"

\* What the route's POST makes of the exchange that just ended.
RouteDone(op, made) ==
  CASE op.phase = "initialize" -> ConnectAfterInitialize(made)
    [] op.phase = "tools/list" -> ConnectAfterToolsList(made)
    [] op.phase = "tools/call" -> ExecuteAfterToolsCall(made)

\* A route's makeRequest from the resolution of its fetch, and what the
\* route's POST makes of it: its answer, or (after initialize) going on.
RouteReply ==
  /\ program = "chat"
  /\ \E s \in Slots, reply \in Replies :
       /\ ops[s] # NoOp
       /\ ops[s].phase \in {"initialize", "tools/list", "tools/call"}
       /\ LET op == ops[s]
              made == DecodeResponse(reply)
              done == RouteDone(op, made)
          IN /\ last' = [site |-> RouteSite(op), op |-> "POST", method |-> op.phase,
                         params |-> op.params,
                         request |-> op.request, body |-> StringifyRequest(op.request),
                         reply |-> reply, made |-> made, done |-> done,
                         posts |-> Len(op.sent) - (op.invoked - 1)]
             /\ ops' = [ops EXCEPT ![s] =
                          LET ended == [op EXCEPT !.sent = Ended(@, made)]
                          IN IF op.phase = "initialize"
                             THEN IF done.kind = "throw"
                                  THEN RouteAnswer(ended, ConnectAnswer(done))
                                  ELSE [ended EXCEPT !.phase = "initialized"]
                             ELSE IF op.phase = "tools/list"
                             THEN RouteAnswer(ended, ConnectAnswer(done))
                             ELSE RouteAnswer(ended, ExecuteAnswer(done))]
  /\ lastOp' = NoOp
  /\ UNCHANGED <<pageVars, program, env, pc, basicVars, calls, mcp, fetches>>

\* The connect route after a successful initialize: its tools/list exchange.
RouteListTools ==
  /\ program = "chat"
  /\ \E s \in Slots, id \in RandomIds :
       /\ ops[s] # NoOp
       /\ ops[s].phase = "initialized"
       /\ ops' = [ops EXCEPT ![s] = RouteSend(ops[s], "tools/list", id, JsUndefined)]
  /\ last' = NoLast
  /\ UNCHANGED <<pageVars, program, env, pc, basicVars, calls, mcp, fetches, lastOp>>

\* The MCPClient operation after its fetch resolved or rejected.
McpReceive ==
  /\ program = "chat"
  /\ \E s \in Slots :
       /\ ops[s] # NoOp
       /\ ops[s].phase \in {"answered", "unreachable", "undecodable"}
       /\ LET op == ops[s]
          IN IF op.kind = "executeTool"
             THEN /\ lastOp' = [kind |-> op.kind, fetched |-> TRUE,
                                outcome |-> IF op.phase # "answered"
                                            THEN ExecuteCaught(FetchError(op.phase))
                                            ELSE ExecuteReceive(op.toolName, op.answer)]
                  /\ UNCHANGED mcp
             ELSE LET got == IF op.phase # "answered"
                             THEN [mcp |-> mcp, outcome |-> Throw(FetchError(op.phase))]
                             ELSE ConnectReceive(mcp, op.answer)
                  IN /\ mcp' = got.mcp
                     /\ lastOp' = [kind |-> op.kind, fetched |-> TRUE,
                                   outcome |-> IF op.kind = "connect" \/ got.outcome.kind = "throw"
                                               THEN got.outcome
                                               ELSE Return(JsArray(got.mcp.availableTools))]
       /\ ops' = [ops EXCEPT ![s] = NoOp]
  /\ last' = NoLast
  /\ UNCHANGED <<pageVars, program, env, pc, basicVars, calls, fetches>>

\* ------------------------------------------------------------ ChatPage's steps

\* POST of the connect route as one computation, for the responses of the
\* MCP server to its initialize and its tools/list request.
ConnectRoutePOST(serverUrl, init, list) ==
  LET started == ConnectRouteStart(NewOpOf(serverUrl, "connect", "", EmptyObject), 0)
      initialized == ConnectAfterInitialize(DecodeResponse(init))
  IN IF started.phase = "answered" THEN started.answer
     ELSE IF initialized.kind = "throw" THEN ConnectAnswer(initialized)
     ELSE ConnectAnswer(ConnectAfterToolsList(DecodeResponse(list)))

\* POST of the execute route as one computation, for the response of the MCP
\* server to its tools/call request.
ExecuteRoutePOST(serverUrl, name, args, reply) ==
  LET started == ExecuteRouteStart(NewOpOf(serverUrl, "executeTool", name, args), 0)
  IN IF started.phase = "answered" THEN started.answer
     ELSE ExecuteAnswer(ExecuteAfterToolsCall(DecodeResponse(reply)))

JsonResponse(v) == Response([status |-> 200, statusText |-> "OK"],
                            [h \in {"content-type"} |-> <<"application/json">>], JSONstringify(v))

\* What the MCP server answers to the page's connect: the tools it has.
PageToolLists ==
  {JsonResponse(ResultEnvelope([tools |-> ts])) :
     ts \in {<<>>, <<ToolDescriptor("list_connectors_alloy")>>,
             <<ToolDescriptor("list_connectors_alloy"), ToolDescriptor("get_credentials_alloy")>>}}

\* What the MCP server answers to a tools/call of the page.
PageToolReplies ==
  {JsonResponse(ResultEnvelope([content |-> <<ContentItem(<<"M">>)>>])),
   JsonResponse(ResultEnvelope(EmptyObject)),
   JsonResponse(ErrorEnvelope(-32601, <<"M">>)),
   NetworkFailure}

\* What the user types.
PageInputs ==
  {<<" ">>, <<"Hello">>, <<"connectors">>, <<"credential">>,
   <<"connectors", " ", "Slack", " ", "credential">>, <<"how to", " ", "send message">>}

\* input.trim() is empty
IsBlank(input) == \A i \in DOMAIN input : input[i] \in {" ", "LF", "CR", "LS"}

\* addMessage: the id and the timestamp of a message are left out.
Message(role, content) == [role |-> role, content |-> content]
ToolMessage(content, toolName) == [role |-> "tool", content |-> content, toolName |-> toolName]

Pending == [pending |-> TRUE]

\* tools.slice(0, 5).map((t) => t.name)
FirstFiveNames(tools) ==
  [i \in 1..(IF Len(tools) < 5 THEN Len(tools) ELSE 5) |-> tools[i].name]

\* initializeMCP up to the fetch of client.connect(): the client is made
\* from the environment of the build.
initializeMCP ==
  /\ connecting' = MCPClientNew([serverUrl |-> OrEmpty(env), apiKey |-> ApiKey])
  /\ fetches' = fetches + 1
  /\ pc' = "connecting"

\* The effect of the page's mount.
PageInitializeMCP ==
  /\ program = "page" /\ pc = "construct"
  /\ initializeMCP
  /\ UNCHANGED <<program, env, basicVars, calls, last, mcp, ops, lastOp, page, send, localStorage>>

\* What the user enters in the server configuration panel.  The panel's
\* state starts from the environment and lasts until the panel closes.
OtherUrl == "https://other.example/mcp/token"
OtherKey == "key2"
EnteredConfigs ==
  {[serverUrl |-> "", apiKey |-> ApiKey], [serverUrl |-> Url, apiKey |-> ApiKey],
   [serverUrl |-> OtherUrl, apiKey |-> OtherKey]}

\* JSON.stringify(config)
StringifyConfig(c) ==
  <<"{", "\"serverUrl\":", "\"", c.serverUrl, "\"", ",", "\"apiKey\":", "\"", c.apiKey, "\"", "}">>

\* ServerConfig.handleSave, for the configuration the panel holds: the item
\* is stored, onSave is initializeMCP of the page (up to the fetch of
\* connect), onClose hides the panel.  The button is disabled while a field
\* is empty.
PageSaveConfig ==
  /\ program = "page" /\ pc = "ready" /\ calls < MaxSends
  /\ \E config \in EnteredConfigs :
       /\ config.serverUrl # "" /\ config.apiKey # ""
       /\ localStorage' = [present |-> TRUE, value |-> StringifyConfig(config)]
  /\ initializeMCP
  /\ calls' = calls + 1
  /\ UNCHANGED <<program, env, basicVars, last, mcp, ops, lastOp, page, send>>

\* initializeMCP from the answer of the connect route: connect ends,
\* getAvailableTools returns the tools of the connected client, the page
\* takes the client and selects the first five tools; a failure is a
\* system message.
PageConnected ==
  /\ program = "page" /\ pc = "connecting"
  /\ \E init \in {JsonResponse(ResultEnvelope(EmptyObject)), NetworkFailure},
        list \in PageToolLists, way \in FetchWays :
       LET got == IF way = "route"
                  THEN ConnectReceive(connecting, ConnectRoutePOST(connecting.config.serverUrl, init, list))
                  ELSE [mcp |-> connecting, outcome |-> Throw(FetchError(way))]
       IN /\ mcp' = IF got.outcome.kind = "throw" THEN mcp ELSE got.mcp
          /\ page' = IF got.outcome.kind = "throw"
                     THEN [page EXCEPT !.messages =
                             Append(@, Message("system",
                               <<"Failed to connect to Alloy MCP server. Please check your configuration.">>))]
                     ELSE [page EXCEPT !.mcpClient = TRUE,
                                       !.availableTools = got.mcp.availableTools,
                                       !.selectedTools = FirstFiveNames(got.mcp.availableTools)]
  /\ pc' = "ready"
  /\ connecting' = NoClient
  /\ UNCHANGED <<program, env, basicVars, calls, last, ops, fetches, lastOp, send, localStorage>>

\* prev.includes(toolName) ? prev.filter((t) => t !== toolName) : [...prev, toolName]
Toggle(prev, toolName) ==
  IF NamesInclude(prev, toolName) THEN SelectSeq(prev, LAMBDA t : t # toolName)
  ELSE Append(prev, toolName)

\* onToggleTool of the tool panel, for a tool the panel shows.
PageToggleTool ==
  /\ program = "page" /\ pc = "ready" /\ page.toggled < MaxToggles
  /\ \E i \in DOMAIN page.availableTools :
       page' = [page EXCEPT !.selectedTools = Toggle(@, page.availableTools[i].name),
                            !.toggled = @ + 1]
  /\ UNCHANGED <<program, env, pc, basicVars, calls, last, chatVars, send, connecting, localStorage>>

\* How MCPClient.executeTool ends for the answer of the execute route, or
\* for a fetch that brought none.
ToolResultOf(name, args, reply, way) ==
  IF way = "route"
  THEN ExecuteReceive(name, ExecuteRoutePOST(mcp.config.serverUrl, name, args, reply))
  ELSE ExecuteCaught(FetchError(way))

\* Promise.all: the values of the promises in the order of the promises,
\* whatever the order they were fulfilled in.
PromiseAllInCompletionOrder(results, completed) ==
  [k \in DOMAIN completed |-> results[completed[k]]]
PromiseAll(results, completed) == results

\* toolResults.forEach((result, index) => addMessage({role: "tool", ...}))
ToolMessages(toolsToInvoke, toolResults) ==
  [i \in DOMAIN toolResults |->
     IF toolResults[i].content = JsUndefined
     THEN [role |-> "tool", toolName |-> toolsToInvoke[i].name]
     ELSE ToolMessage(StringifyToolContent(toolResults[i].content), toolsToInvoke[i].name)]

\* handleSend after its tool calls: the tool messages, the assistant's
\* response, and `finally`.
FinishSend(p, toolsToInvoke, toolResults, picked) ==
  [p EXCEPT !.messages =
              @ \o ToolMessages(toolsToInvoke, toolResults)
                \o <<Message("assistant",
                             generateResponse(IF Len(toolsToInvoke) > 0 THEN JsArray(toolResults)
                                              ELSE JsUndefined, picked))>>,
            !.isLoading = FALSE]

\* catch and finally of handleSend
FailSend(p) ==
  [p EXCEPT !.messages = Append(@, Message("system",
                                           <<"An error occurred while processing your request.">>)),
            !.isLoading = FALSE]

InvokingTools(toolsToInvoke) ==
  Message("system",
          <<"Invoking tools: ">> \o Join([i \in DOMAIN toolsToInvoke |-> <<toolsToInvoke[i].name>>],
                                        <<", ">>))

\* if (!input.trim() || !mcpClient || isLoading) return;
handleSendReturnsIgnoringLoading(input, p) == IsBlank(input) \/ ~p.mcpClient
handleSendReturns(input, p) == IsBlank(input) \/ ~p.mcpClient \/ p.isLoading

\* handleSend up to `await Promise.all(...)`: every executeTool of the map
\* runs to its fetch before handleSend awaits.  Without tools to invoke
\* handleSend runs to its end.  The state that handleSend sets before its
\* first await is rendered before the next event of the user is handled, so
\* the guard of the next handleSend reads it.
PageHandleSend ==
  /\ program = "page" /\ pc \in {"connecting", "ready"}
  /\ \E input \in PageInputs :
       IF handleSendReturns(input, page)
       THEN /\ send' = [send EXCEPT !.refused = TRUE]
            /\ UNCHANGED <<page, fetches, calls>>
       ELSE
       /\ calls < MaxSends \/ page.isLoading
       /\ calls' = calls + 1
       /\ LET toolsToInvoke == determineTools(input, page.selectedTools)
              asked == [page EXCEPT !.messages = Append(@, Message("user", input))]
              sent == [phase |-> "awaiting", refused |-> FALSE, input |-> input,
                       selectedTools |-> page.selectedTools,
                       toolsToInvoke |-> toolsToInvoke,
                       results |-> [i \in DOMAIN toolsToInvoke |-> Pending], completed |-> <<>>]
          IN IF toolsToInvoke = <<>>
             THEN /\ \E picked \in SimpleResponses :
                       page' = FinishSend(asked, toolsToInvoke, <<>>, picked)
                  /\ send' = [sent EXCEPT !.phase = "done"]
                  /\ UNCHANGED fetches
             ELSE IF ~mcp.connected
             THEN /\ page' = FailSend([asked EXCEPT !.messages =
                                                  Append(@, InvokingTools(toolsToInvoke))])
                  /\ send' = [sent EXCEPT !.phase = "failed"]
                  /\ UNCHANGED fetches
             ELSE /\ page' = [asked EXCEPT !.messages = Append(@, InvokingTools(toolsToInvoke)),
                                           !.isLoading = TRUE]
                  /\ send' = sent
                  /\ fetches' = fetches + Len(toolsToInvoke)
  /\ UNCHANGED <<program, env, pc, basicVars, last, mcp, ops, lastOp, connecting, localStorage>>

\* One executeTool of the running handleSend from the answer of the execute
\* route to its end; with the last of them Promise.all is fulfilled and
\* handleSend runs to its end.  An executeTool that rejects rejects
\* Promise.all, and handleSend goes to its catch.
PageToolCompletes ==
  /\ program = "page" /\ send.phase = "awaiting"
  /\ \E i \in DOMAIN send.results, reply \in PageToolReplies, way \in FetchWays :
       /\ send.results[i] = Pending
       /\ LET tool == send.toolsToInvoke[i]
              ended == ToolResultOf(tool.name, tool.arguments, reply, way)
              results == [send.results EXCEPT ![i] = ended.value]
              completed == Append(send.completed, i)
          IN IF ended.kind = "throw"
             THEN /\ send' = [send EXCEPT !.completed = completed, !.phase = "failed"]
                  /\ page' = FailSend(page)
             ELSE IF \E j \in DOMAIN results : results[j] = Pending
             THEN /\ send' = [send EXCEPT !.results = results, !.completed = completed]
                  /\ UNCHANGED page
             ELSE /\ send' = [send EXCEPT !.results = results, !.completed = completed,
                                          !.phase = "done"]
                  /\ page' = FinishSend(page, send.toolsToInvoke,
                                        PromiseAll(results, completed), <<>>)
  /\ UNCHANGED <<program, env, pc, basicVars, calls, last, chatVars, connecting, localStorage>>

PageNext ==
  PageInitializeMCP \/ PageConnected \/ PageSaveConfig \/ PageToggleTool \/ PageHandleSend
  \/ PageToolCompletes

ChatNext ==
  ChatConstruct \/ McpConnect \/ McpExecuteTool \/ McpDisconnect \/ RouteReply \/ RouteListTools
  \/ McpReceive

BasicNext == ApiConstruct \/ ApiCall \/ ApiReply \/ MainConstruct \/ MainCall \/ MainReply

Next == BasicNext \/ ChatNext \/ PageNext
Spec == Init /\ [][Next]_vars

\* ------------------------------------------------------------------ claims

Ended1 == last # NoLast
GotResponse == Ended1 /\ last.reply # NetworkFailure
IsSuffix(sfx, text) ==
  Len(sfx) <= Len(text) /\ SubSeq(text, Len(text) - Len(sfx) + 1, Len(text)) = sfx
JsonHeader == [h \in {"content-type"} |-> <<"application/json">>]

\* C1: whenever a makeRequest call (basic client, connect route, execute
\* route) got a response whose status is not 2xx, the call threw an Error
\* whose message has the numeric status and the status text, and neither
\* response.text() nor response.json() nor JSON.parse was invoked.
C1_NonOkStatusFailsBeforeBody ==
  (GotResponse /\ ~ResponseOk(last.reply)) =>
    /\ last.made.kind = "throw"
    /\ last.made.error.name = "Error"
    /\ Includes(last.made.error.message, ToString(last.reply.status))
    /\ Includes(last.made.error.message, last.reply.statusText)
    /\ last.made.read = "none"
    /\ ~last.made.parsed

C1_Witness ==
  /\ GotResponse
  /\ last.site = "connect"
  /\ last.reply.status = 404
  /\ JSONparseOk(last.reply.body)
  /\ last.made.kind = "throw"

\* C2 (as claimed): every makeRequest call that ended either threw or
\* returned a value decoded from the response body.
C2_ReturnsDecodedOrThrows ==
  Ended1 =>
    \/ last.made.kind = "throw"
    \/ last.made.kind = "return" /\ last.made.value \in JsonValues

RemoteError == last.made.value.error
GotErrorEnvelope ==
  /\ Ended1
  /\ last.op # "makeRequest"
  /\ last.made.kind = "return"
  /\ ~IsNullish(last.made.value)
  /\ HasProp(last.made.value, "error")
CarriesCode(e, code) ==
  \/ HasProp(e, "code")
  \/ Includes(e.message, ToString(code))

JsonTwin(v) == Response([status |-> 200, statusText |-> "OK"], JsonHeader, JSONstringify(v))

\* C4 (as claimed): a 2xx text/event-stream response whose body is
\* "event: message\ndata: <E as JSON>\n\n" decodes to what the 2xx JSON
\* response with body <E as JSON> decodes to, for every envelope E.
C4_DualModeEquivalent ==
  \A v \in Envelopes :
    (/\ GotResponse
     /\ ResponseOk(last.reply)
     /\ IsEventStream(last.reply)
     /\ last.reply.body = SseFrame(JSONstringify(v))) =>
      /\ DecodeResponse(JsonTwin(v)).kind = "return"
      /\ DecodeResponse(JsonTwin(v)).value = v
      /\ last.made.kind = "return"
      /\ last.made.value = v

\* C5 (as claimed): with an empty or missing endpoint no client of the
\* repository is constructed and no request is sent.
C5_EmptyEndpointFailsAtConstruction ==
  OrEmpty(env) = "" =>
    /\ ~client.constructed
    /\ ~mcp.constructed
    /\ wire = <<>>
    /\ fetches = 0

\* C6: a makeRequest call without params sent a body with no params key,
\* and with jsonrpc "2.0", the method and an integer id.
C6_NoParamsKeyWhenOmitted ==
  (Ended1 /\ last.params = JsUndefined) =>
    /\ ~Includes(last.body, "\"params\":")
    /\ ~HasProp(last.request, "params")
    /\ last.request.jsonrpc = "2.0"
    /\ last.request.method = last.method
    /\ last.request.id \in Int
    /\ \E i \in DOMAIN last.body :
         /\ last.body[i] = "\"id\":"
         /\ i < Len(last.body)
         /\ last.body[i + 1] = ToString(last.request.id)
    /\ Includes(last.body, "\"jsonrpc\":") /\ Includes(last.body, "2.0")
    /\ Includes(last.body, "\"method\":") /\ Includes(last.body, last.method)

C6_Witness ==
  /\ Ended1
  /\ last.site = "connect"
  /\ last.method = "tools/list"
  /\ last.params = JsUndefined
  /\ ~Includes(last.body, "\"params\":")

\* C7 (as claimed): whenever a params value was supplied, the envelope has
\* a params field equal to it; params is absent only when none was supplied.
C7_SuppliedParamsAlwaysSent ==
  Ended1 =>
    IF last.params # JsUndefined
    THEN /\ HasProp(last.request, "params")
         /\ last.request.params = last.params
         /\ Includes(last.body, "\"params\":")
    ELSE ~HasProp(last.request, "params")

\* C7 (amended): whenever a truthy params value was supplied (an object,
\* the empty object included), the envelope has a params field equal to
\* it; when none was supplied or the supplied value is falsy (null, 0,
\* false, the empty string), the envelope has no params field.
C7_TruthyParamsSent ==
  Ended1 =>
    IF last.params \notin {JsUndefined, JsNull, JsZero, JsFalse, JsEmptyString}
    THEN /\ HasProp(last.request, "params")
         /\ last.request.params = last.params
         /\ \E i \in DOMAIN last.body :
              /\ last.body[i] = "\"params\":"
              /\ SubSeq(last.body, i + 1, Len(last.body) - 1) = StringifyParams(last.params)
    ELSE /\ ~HasProp(last.request, "params")
         /\ ~Includes(last.body, "\"params\":")

C7_Witness ==
  /\ Ended1
  /\ last.op = "makeRequest"
  /\ last.params = JsNull
  /\ ~HasProp(last.request, "params")

PairwiseDistinctIds(posts) ==
  \A i, j \in DOMAIN posts : i # j => posts[i].id # posts[j].id

\* C8 (as claimed): the k-th request of a basic client carries id k, and
\* the requests a route sends for one POST carry pairwise distinct ids.
C8_IdsUniqueInSession ==
  /\ \A k \in DOMAIN wire : wire[k].id = k
  /\ \A s \in Slots : ops[s] # NoOp => PairwiseDistinctIds(ops[s].sent)

Before(posts, i, method) ==
  \E j \in 1..(i - 1) : posts[j].method = method /\ posts[j].outcome = "ok"

InOrder(posts) ==
  \A i \in DOMAIN posts :
    /\ posts[i].method = "tools/list" => Before(posts, i, "initialize")
    /\ posts[i].method = "tools/call" =>
         \E k \in 1..(i - 1) :
           /\ posts[k].method = "tools/list" /\ posts[k].outcome = "ok"
           /\ Before(posts, k, "initialize")

\* C9: main sends tools/list only after an initialize exchange that
\* returned an envelope without error, and tools/call only after a
\* tools/list exchange that did so after it; the connect route sends
\* tools/list only after such an initialize exchange; executeTool on an
\* MCPClient that is not connected throws and starts no request.
C9_HandshakeOrder ==
  /\ [](program = "main" => InOrder(wire))
  /\ [](\A s \in Slots :
          (ops[s] # NoOp /\ ops[s].kind # "executeTool") => InOrder(ops[s].sent))
  /\ [][(program = "chat" /\ mcp.constructed /\ ~mcp.connected) =>
          /\ \A s \in Slots :
               (ops[s] = NoOp /\ ops'[s] # NoOp) => ops'[s].kind # "executeTool"
          /\ (calls' = calls + 1 /\ lastOp'.kind = "executeTool") =>
               /\ lastOp'.outcome.kind = "throw"
               /\ fetches' = fetches
               /\ ops' = ops]_vars

C9_Witness ==
  /\ program = "main"
  /\ Len(wire) >= 3
  /\ wire[3].method = "tools/call"
  /\ wire[1].outcome = "ok"
  /\ wire[2].outcome = "ok"

\* C10: every makeRequest call sends one POST, whatever its outcome: the
\* basic client has sent as many POSTs as operations were started on it,
\* each call that ended had sent exactly one, and a route has sent as many
\* POSTs as makeRequest calls it made.
C10_OnePostPerCall ==
  /\ program \in {"api", "main"} => Len(wire) = calls
  /\ Ended1 => last.posts = 1
  /\ \A s \in Slots : ops[s] # NoOp => Len(ops[s].sent) = ops[s].invoked

C10_Witness ==
  /\ Ended1
  /\ last.op = "executeTool"
  /\ last.reply = NetworkFailure
  /\ last.done.kind = "throw"
  /\ last.posts = 1
  /\ Len(wire) = 2

\* The requests of a sequence of posts that have not ended.
InFlight(posts) == Cardinality({i \in DOMAIN posts : posts[i].outcome = "pending"})
\* The executeTool calls of the running handleSend that have not ended.
ToolCallsInFlight ==
  IF send.phase = "awaiting"
  THEN Cardinality({i \in DOMAIN send.results : send.results[i] = Pending})
  ELSE 0

\* C11 (as stated): a client instance has at most one request in flight at
\* any time, in the basic example and in the chat page's tool calls for one
\* user message.
C11_OneRequestInFlight ==
  /\ InFlight(wire) <= 1
  /\ ToolCallsInFlight <= 1

\* C11 (amended): the AlloyMCPClient of the basic example and a route's POST
\* have at most one request in flight, and a request is in flight exactly
\* while an operation awaits it; the chat page starts the executeTool calls
\* of one user message together, so as many as determineTools returned are in
\* flight at once, all of them belonging to the one handleSend that runs
\* (isLoading is set while any is in flight).
C11_OneInFlightExceptToolCalls ==
  /\ program \in {"api", "main"} =>
       /\ InFlight(wire) <= 1
       /\ (InFlight(wire) = 1) = (call # NoCall)
       /\ \A i \in DOMAIN wire : wire[i].outcome = "pending" => i = Len(wire)
  /\ \A s \in Slots : ops[s] # NoOp => InFlight(ops[s].sent) <= 1
  /\ program = "page" =>
       /\ ToolCallsInFlight <= Len(IF send.phase = "awaiting" THEN send.toolsToInvoke ELSE <<>>)
       /\ ToolCallsInFlight > 0 => page.isLoading
       /\ send.phase = "awaiting" =>
            Len(send.completed) + ToolCallsInFlight = Len(send.toolsToInvoke)

\* Two tool calls of one user message are in flight at once.
C11_Witness == program = "page" /\ page.isLoading /\ ToolCallsInFlight = 2

\* C12: whatever the order in which the executeTool calls of one user message
\* complete, the i-th tool message carries the result of the i-th tool of
\* toolsToInvoke and that tool's name, and nothing of the send (no tool
\* message, no assistant response) is appended before all of the calls have
\* completed; a reconnection that failed meanwhile adds its system message.
C12_ToolMessagesInCallOrder ==
  /\ [](program = "page" /\ send.phase = "awaiting" =>
          \E j \in 1..(Len(page.messages) - 1) :
            /\ page.messages[j] = Message("user", send.input)
            /\ page.messages[j + 1] = InvokingTools(send.toolsToInvoke)
            /\ \A k \in (j + 2)..Len(page.messages) : page.messages[k].role = "system")
  /\ [][(program = "page" /\ send.phase = "awaiting" /\ send'.phase = "awaiting") =>
         \A k \in (Len(page.messages) + 1)..Len(page'.messages) :
           page'.messages[k].role = "system"]_vars
  /\ [][(program = "page" /\ send.phase = "awaiting" /\ send'.phase = "done") =>
         LET n == Len(send.toolsToInvoke)
             added == SubSeq(page'.messages, Len(page.messages) + 1, Len(page'.messages))
         IN /\ SubSeq(page'.messages, 1, Len(page.messages)) = page.messages
            /\ Len(added) = n + 1
            /\ \A i \in 1..n :
                 /\ send'.results[i] # Pending
                 /\ added[i].role = "tool"
                 /\ added[i].toolName = send.toolsToInvoke[i].name
                 /\ added[i].content = StringifyToolContent(send'.results[i].content)
            /\ added[n + 1].role = "assistant"
            /\ added[n + 1].content = generateResponse(JsArray(send'.results), <<>>)]_vars

\* Two tool calls completed in the reverse of the order they were started in,
\* with different results, and handleSend has run to its end.
C12_Witness ==
  /\ send.phase = "done"
  /\ Len(send.toolsToInvoke) = 2
  /\ send.completed = <<2, 1>>
  /\ send.results[1].isError # send.results[2].isError

\* The envelopes with a result field whose JSON text a body is.
ResultEnvelopesOf(body) ==
  {v \in Envelopes : HasProp(v, "result") /\ JSONstringify(v) = TrimRight(TrimLeft(body))}

\* A 2xx response that is not an event stream and whose body is the JSON
\* text of an envelope with a result field.
GotJsonResult ==
  /\ GotResponse
  /\ ResponseOk(last.reply)
  /\ ~IsEventStream(last.reply)
  /\ ResultEnvelopesOf(last.reply.body) # {}

\* C13: for every 2xx JSON response whose envelope has a result field,
\* makeRequest (basic client and both routes) returns the envelope with that
\* result unchanged, and executeTool of the basic client returns exactly that
\* result to its caller.
C13_ResultUnchanged ==
  GotJsonResult =>
    \A v \in ResultEnvelopesOf(last.reply.body) :
      /\ last.made.kind = "return"
      /\ last.made.value = v
      /\ last.made.value.result = v.result
      /\ (last.site = "basic" /\ last.op = "executeTool") => last.done = Return(v.result)

\* executeTool of the basic client got a JSON response with a result that
\* has one content item, and returned.
C13_Witness ==
  /\ GotJsonResult
  /\ last.site = "basic" /\ last.op = "executeTool"
  /\ last.done.kind = "return"
  /\ HasProp(last.done.value, "content")
  /\ Len(last.done.value.content) = 1

BasicExecuteToolReturned ==
  /\ Ended1
  /\ last.site = "basic" /\ last.op = "executeTool"
  /\ ~Fails(last.made)
  /\ last.done.kind = "return"

\* The value is a content, or has a content field, equal to `content`.
ReturnsContent(v, content) ==
  /\ ~IsNullish(v)
  /\ \/ v = JsArray(content)
     \/ HasProp(v, "content") /\ v.content = content

\* C14 (as stated, for the basic client): executeTool returns the content of
\* the result, and an empty sequence when the result has no content.
C14_ExecuteToolReturnsContent ==
  BasicExecuteToolReturned =>
    ReturnsContent(last.done.value, ResultField(last.made.value, "content"))

\* The execute route answered its one exchange.
ExecuteRouteAnswered(s) ==
  /\ ops[s] # NoOp
  /\ ops[s].kind = "executeTool"
  /\ ops[s].phase = "answered"
  /\ last # NoLast
  /\ last.site = "execute"

\* C14 (amended): executeTool of the basic client sends one tools/call
\* request with params {name, arguments} and returns the result field of the
\* envelope as it is (undefined when the envelope has none; no unwrapping, no
\* default), so for {result: {content: [c]}} the content of the returned
\* value is [c].  On the chat path the execute route sends one tools/call
\* request with params {name, arguments}, arguments being {} when none (or a
\* falsy one) was given, and answers the content of the result or an empty
\* sequence; MCPClient.executeTool returns that content with isError false.
C14_ExecuteToolReturns ==
  /\ [](Ended1 /\ last.site = "basic" /\ last.op = "executeTool" =>
          /\ last.posts = 1
          /\ last.request.method = "tools/call"
          /\ DOMAIN last.request.params = {"name", "arguments"}
          /\ last.request.params = last.params
          /\ BasicExecuteToolReturned =>
               /\ last.done.value = IF HasProp(last.made.value, "result")
                                    THEN last.made.value.result ELSE JsUndefined
               /\ \A c \in {ContentItem(<<"M">>), ContentItem(<<"M", "LS", "N">>)} :
                    last.made.value = ResultEnvelope([content |-> <<c>>]) =>
                      last.done.value.content = <<c>>)
  /\ [](\A s \in Slots : ExecuteRouteAnswered(s) =>
          /\ Len(ops[s].sent) = 1
          /\ ops[s].sent[1].method = "tools/call"
          /\ ops[s].request.params =
               [name |-> ops[s].toolName,
                arguments |-> IF Truthy(ops[s].args) THEN ops[s].args ELSE EmptyObject]
          /\ ~Fails(last.made) =>
               ops[s].answer = Answer(200, [content |-> ResultField(last.made.value, "content")]))
  /\ [][\A s \in Slots :
          (/\ ops[s] # NoOp /\ ops[s].kind = "executeTool" /\ ops[s].phase = "answered"
           /\ AnswerOk(ops[s].answer) /\ ops'[s] = NoOp) =>
            lastOp'.outcome =
              Return([content |-> JsArray(ops[s].answer.data.content), isError |-> FALSE])]_vars

\* MCPClient.executeTool returned, through the execute route, a content of
\* one item.
C14_Witness ==
  /\ lastOp.kind = "executeTool"
  /\ lastOp.fetched
  /\ lastOp.outcome.kind = "return"
  /\ ~lastOp.outcome.value.isError
  /\ Len(lastOp.outcome.value.content.array) = 1

\* result.tools of an envelope, and whether it has them.
HasTools(v) == HasProp(v, "result") /\ HasProp(v.result, "tools")
ToolsOf(v) == IF HasTools(v) THEN v.result.tools ELSE <<>>

\* The connect route answered after its tools/list exchange.
ConnectRouteListed(s) ==
  /\ ops[s] # NoOp
  /\ ops[s].kind \in {"connect", "getAvailableTools"}
  /\ ops[s].phase = "answered"
  /\ last # NoLast
  /\ last.site = "connect"
  /\ last.method = "tools/list"

\* C15: listing the tools sends one tools/list request without params;
\* listAvailableTools of the basic client returns result.tools, and an empty
\* sequence when the envelope has no error and result or result.tools is
\* absent; the connect route answers success with the tools of result.tools
\* (each with its name and description, in order), and with an empty tools
\* list when result or result.tools is absent.
C15_ListToolsDefaultsToEmpty ==
  /\ (Ended1 /\ last.site = "basic" /\ last.op = "listAvailableTools") =>
       /\ last.posts = 1
       /\ last.request.method = "tools/list"
       /\ ~HasProp(last.request, "params")
       /\ ~Includes(last.body, "\"params\":")
       /\ ~Fails(last.made) =>
            /\ last.done.kind = "return"
            /\ last.done.value = JsArray(ToolsOf(last.made.value))
            /\ ~HasTools(last.made.value) => last.done.value = JsArray(<<>>)
  /\ \A s \in Slots : ConnectRouteListed(s) =>
       /\ ~HasProp(last.request, "params")
       /\ ~Includes(last.body, "\"params\":")
       /\ Len(ops[s].sent) = 2
       /\ ops[s].sent[2].method = "tools/list"
       /\ ~Fails(last.made) =>
            /\ ops[s].answer.status = 200
            /\ ops[s].answer.data.success
            /\ Len(ops[s].answer.data.tools) = Len(ToolsOf(last.made.value))
            /\ \A i \in DOMAIN ops[s].answer.data.tools :
                 /\ ops[s].answer.data.tools[i].name = ToolsOf(last.made.value)[i].name
                 /\ ops[s].answer.data.tools[i].description =
                      ToolsOf(last.made.value)[i].description
            /\ ~HasTools(last.made.value) => ops[s].answer.data.tools = <<>>

\* The connect route got an envelope without result for tools/list and
\* answered success with an empty tools list.
C15_Witness ==
  \E s \in Slots :
    /\ ConnectRouteListed(s)
    /\ last.made.kind = "return"
    /\ last.made.value = BareEnvelope
    /\ ops[s].answer = Answer(200, [success |-> TRUE, tools |-> <<>>])

\* The lines of an event stream end with LF or CR.  The places where a line
\* of the text begins.
LineStarts(text) == {i \in DOMAIN text : i = 1 \/ text[i - 1] \in {"LF", "CR"}}

\* The lines that are an SSE data field with a payload: "data: <payload>".
DataLines(text) ==
  {i \in LineStarts(text) : text[i] = "data: " /\ i < Len(text) /\ text[i + 1] \notin {"LF", "CR"}}

RECURSIVE LineEnd(_, _)
LineEnd(text, i) ==
  IF i + 1 <= Len(text) /\ text[i + 1] \notin {"LF", "CR"} THEN LineEnd(text, i + 1) ELSE i

\* The payload of the first data line.
FirstDataLinePayload(text) ==
  LET first == CHOOSE i \in DataLines(text) : \A j \in DataLines(text) : i <= j
  IN SubSeq(text, first + 1, LineEnd(text, first + 1))

\* C16 (as stated): for a 2xx event-stream response (here: one without
\* U+2028 in its body) every text makeRequest parsed as the payload is the
\* payload of the first line of the body that is an SSE data field; text of
\* other lines is never taken as the payload.
C16_FirstDataLineDecoded ==
  (/\ GotResponse
   /\ ResponseOk(last.reply)
   /\ IsEventStream(last.reply)
   /\ ~Includes(last.reply.body, "LS")
   /\ last.made.parsed) =>
    /\ DataLines(last.reply.body) # {}
    /\ last.made = Made(ParseOutcome(FirstDataLinePayload(last.reply.body)), "text", TRUE)

\* C17: every tool handleSend executes for a message is a member of
\* selectedTools at the time the message is sent; a tool that was toggled
\* off is not invoked, whatever the message says.
C17_OnlySelectedToolsInvoked ==
  send.phase # "none" =>
    /\ \A i \in DOMAIN send.toolsToInvoke :
         NamesInclude(send.selectedTools, send.toolsToInvoke[i].name)
    /\ DOMAIN send.results = DOMAIN send.toolsToInvoke

\* list_connectors_alloy was toggled off, the message asks for connectors
\* and for Slack credentials, and only get_credentials_alloy is invoked.
C17_Witness ==
  /\ send.phase = "awaiting"
  /\ page.toggled > 0
  /\ NamesInclude([i \in DOMAIN page.availableTools |-> page.availableTools[i].name],
                  "list_connectors_alloy")
  /\ ~NamesInclude(send.selectedTools, "list_connectors_alloy")
  /\ MessageIncludes(send.input, "connector")
  /\ Len(send.toolsToInvoke) = 1
  /\ send.toolsToInvoke[1].name = "get_credentials_alloy"

Connected == mcp.constructed /\ mcp.connected

\* The step leaves the client where it is: it is not the end of an
\* initializeMCP, which gives the page the client it constructed.
SameClient == ~(connecting.constructed /\ ~connecting'.constructed)

\* C18: once connect has completed successfully, connect and
\* getAvailableTools send no request and getAvailableTools returns the tool
\* list obtained at connect time, which stays as it is until disconnect; on
\* a client that is not connected getAvailableTools sends the connect request
\* first and returns only once the client is connected.  (One client: the
\* page that saved a configuration goes on with another one.)
C18_ToolsCachedUntilDisconnect ==
  /\ [][(Connected /\ SameClient) =>
          /\ \A s \in Slots : (ops[s] = NoOp /\ ops'[s] # NoOp) => ops'[s].kind = "executeTool"
          /\ (calls' = calls + 1 /\ lastOp'.kind \in {"connect", "getAvailableTools"}) =>
               /\ fetches' = fetches
               /\ ~lastOp'.fetched
               /\ lastOp'.outcome.kind = "return"
               /\ lastOp'.kind = "getAvailableTools" =>
                    lastOp'.outcome.value = JsArray(mcp.availableTools)
          /\ mcp'.connected => mcp'.availableTools = mcp.availableTools]_vars
  /\ [][(program = "chat" /\ mcp.constructed /\ ~mcp.connected /\ calls' = calls + 1) =>
          /\ fetches' = fetches + 1 \/ lastOp'.kind = "executeTool"
          /\ lastOp'.kind \notin {"connect", "getAvailableTools"}]_vars
  /\ []((lastOp.kind = "getAvailableTools" /\ lastOp.outcome.kind = "return") =>
          /\ Connected
          /\ lastOp.outcome.value = JsArray(mcp.availableTools))

\* getAvailableTools on a connected client returned the two tools of the
\* one connect request that was sent.
C18_Witness ==
  /\ Connected
  /\ lastOp.kind = "getAvailableTools"
  /\ ~lastOp.fetched
  /\ fetches = 1
  /\ lastOp.outcome.kind = "return"
  /\ Len(lastOp.outcome.value.array) = 2

\* The connect route has answered the connect or getAvailableTools of the
\* MCPClient.
ConnectRouteAnswered(s) ==
  /\ ops[s] # NoOp
  /\ ops[s].kind \in {"connect", "getAvailableTools"}
  /\ ops[s].phase = "answered"

\* The ways an exchange fails: no response, a status that is not 2xx, a body
\* that does not decode to an envelope, an envelope with an error.
ExchangeFailed(ended) ==
  \/ ended.reply = NetworkFailure
  \/ ~ResponseOk(ended.reply)
  \/ ended.made.kind = "throw"
  \/ IsNullish(ended.made.value)
  \/ HasProp(ended.made.value, "error")

\* C19: the connect route answers {success: true, tools} only when its
\* initialize and its tools/list exchange both returned an envelope without
\* error; without a serverUrl it answers 400 and sends nothing to the MCP
\* server; every failure of either exchange is answered with status 500 and
\* without success.
C19_ConnectRouteAnswers ==
  \A s \in Slots :
    /\ ConnectRouteAnswered(s) =>
         /\ ops[s].answer.status \in {200, 400, 500}
         /\ InFlight(ops[s].sent) = 0
         /\ (ops[s].answer.status = 200) =
              (/\ HasProp(ops[s].answer.data, "success")
               /\ Len(ops[s].sent) = 2
               /\ ops[s].sent[1].method = "initialize" /\ ops[s].sent[1].outcome = "ok"
               /\ ops[s].sent[2].method = "tools/list" /\ ops[s].sent[2].outcome = "ok")
         /\ HasProp(ops[s].answer.data, "success") =>
              ops[s].answer.data.success /\ HasProp(ops[s].answer.data, "tools")
         /\ (ops[s].serverUrl = "") = (ops[s].answer.status = 400)
         /\ ops[s].answer.status = 400 =>
              ops[s].sent = <<>> /\ ops[s].answer.data = [error |-> <<"Missing server URL">>]
         /\ (\E i \in DOMAIN ops[s].sent : ops[s].sent[i].outcome = "failed") =>
              /\ ops[s].answer.status = 500
              /\ DOMAIN ops[s].answer.data = {"error"}
    /\ (ops[s] # NoOp /\ last # NoLast /\ last.site = "connect" /\ ExchangeFailed(last)) =>
         /\ ops[s].phase = "answered"
         /\ ops[s].answer.status = 500
         /\ ~HasProp(ops[s].answer.data, "success")

\* The initialize exchange succeeded, tools/list came back with an error
\* envelope, and the route answered 500.
C19_Witness ==
  \E s \in Slots :
    /\ ConnectRouteAnswered(s)
    /\ Len(ops[s].sent) = 2
    /\ ops[s].sent[1].outcome = "ok"
    /\ ops[s].sent[2].outcome = "failed"
    /\ last # NoLast /\ last.made.kind = "return" /\ HasProp(last.made.value, "error")
    /\ ops[s].answer.status = 500

\* The execute route works on, or has answered, the executeTool of the
\* MCPClient.
ExecuteRouteCalled(s) == ops[s] # NoOp /\ ops[s].kind = "executeTool" /\ ops[s].phase \notin {"unreachable", "undecodable"}

\* C20: with serverUrl and toolName both present the execute route sends
\* exactly one tools/call request with the given tool name and arguments ({}
\* when no arguments, or a falsy value, were given) and answers the content
\* of the result (an empty sequence when the result has none);
\* with serverUrl or toolName missing it answers 400 and sends no request;
\* when the exchange fails or returns an error envelope it answers 500
\* without a content field.
C20_ExecuteRouteAnswers ==
  \A s \in Slots : ExecuteRouteCalled(s) =>
    /\ ops[s].phase \in {"tools/call", "answered"}
    /\ (ops[s].serverUrl = "" \/ ops[s].toolName = "") =
         (ops[s].phase = "answered" /\ ops[s].answer.status = 400)
    /\ (ops[s].serverUrl = "" \/ ops[s].toolName = "") =>
         /\ ops[s].sent = <<>>
         /\ ops[s].answer.data = [error |-> <<"Missing required parameters">>]
    /\ (ops[s].serverUrl # "" /\ ops[s].toolName # "") =>
         /\ Len(ops[s].sent) = 1
         /\ ops[s].sent[1].method = "tools/call"
         /\ ops[s].sent[1].url = ops[s].serverUrl
         /\ ops[s].request.params.name = ops[s].toolName
         /\ ops[s].request.params.arguments =
              IF Truthy(ops[s].args) THEN ops[s].args ELSE EmptyObject
         /\ (ops[s].phase = "tools/call") = (ops[s].sent[1].outcome = "pending")
         /\ ops[s].sent[1].outcome = "ok" =>
              /\ ops[s].answer.status = 200
              /\ DOMAIN ops[s].answer.data = {"content"}
              /\ (last # NoLast /\ last.site = "execute") =>
                   /\ ~ExchangeFailed(last)
                   /\ ops[s].answer.data.content = ResultField(last.made.value, "content")
         /\ ops[s].sent[1].outcome = "failed" =>
              /\ ops[s].answer.status = 500
              /\ DOMAIN ops[s].answer.data = {"error"}
              /\ (last # NoLast /\ last.site = "execute") => ExchangeFailed(last)

\* The one tools/call exchange came back with an error envelope and the
\* route answered 500.
C20_Witness ==
  \E s \in Slots :
    /\ ExecuteRouteCalled(s)
    /\ ops[s].phase = "answered"
    /\ Len(ops[s].sent) = 1
    /\ last # NoLast /\ last.site = "execute"
    /\ last.made.kind = "return" /\ HasProp(last.made.value, "error")
    /\ ops[s].answer.status = 500

\* C21: after the user saved the server configuration, the client that the
\* page connects is made with the server URL and the API key that were
\* saved: the body of its connect request carries the saved values.
C21_SavedConfigUsed ==
  (program = "page" /\ localStorage.present /\ connecting.constructed) =>
    StringifyConfig(connecting.config) = localStorage.value

\* An exchange of main's client with method `method` ended in a failure.
MainExchangeFailed(methods) ==
  \E i \in DOMAIN wire : wire[i].method \in methods /\ wire[i].outcome = "failed"

\* C22: when initialize or listAvailableTools of the basic example fails,
\* whatever the kind of failure, main aborts the demonstrations: the process
\* has exited with status 1, no request is in flight, and no tools/call or
\* prompts/list request was sent.
C22_HandshakeFailureAborts ==
  program = "main" =>
    /\ (last # NoLast /\ last.op \in {"initialize", "listAvailableTools"}
          /\ last.done.kind = "throw") =>
         /\ pc = "exited" /\ exitCode = "1" /\ call = NoCall
         /\ wire[Len(wire)].outcome = "failed"
    /\ MainExchangeFailed({"initialize", "tools/list"}) =>
         /\ pc = "exited" /\ exitCode = "1" /\ call = NoCall
         /\ \A i \in DOMAIN wire : wire[i].method \notin {"tools/call", "prompts/list"}
         /\ last.done.kind = "throw"

\* listAvailableTools failed after a successful initialize, with an HTTP
\* error, and main exited.
C22_Witness ==
  /\ program = "main" /\ exitCode = "1" /\ Len(wire) = 2
  /\ last # NoLast /\ last.op = "listAvailableTools" /\ last.done.kind = "throw"
  /\ last.reply # NetworkFailure /\ ~ResponseOk(last.reply)

\* Where main is once the demonstration of position `pos` is over.
AfterDemonstration(pos) ==
  IF pos \in {"connectivity1", "connectivity2"} THEN "credentials1"
  ELSE IF pos \in {"credentials1", "credentials2"} THEN "discovery1"
  ELSE "completed"

DemonstrationPositions == MainPositions \ {"initialize", "listAvailableTools"}

\* C23: a call of a demonstration that fails ends that demonstration only:
\* main goes to the first call of the next demonstration (or completes)
\* without exiting; the call main has in flight is that of its position;
\* an exit with status 1 happens before the first demonstration only, and a
\* main that completed exited with status 0.
C23_DemonstrationFailureContained ==
  /\ [][(program = "main" /\ pc \in DemonstrationPositions /\ call # NoCall /\ call' = NoCall
          /\ last'.done.kind = "throw") =>
         (pc' = AfterDemonstration(pc) /\ exitCode' # "1")]_vars
  /\ [](program = "main" /\ call # NoCall =>
          /\ pc \in MainPositions
          /\ call.method = MainCallAt(pc).method /\ call.params = MainCallAt(pc).params)
  /\ [](program = "main" /\ exitCode = "1" =>
          \A i \in DOMAIN wire : wire[i].method \notin {"tools/call", "prompts/list"})
  /\ [](program = "main" /\ pc = "completed" => exitCode = "0")

\* The first call of demonstrateConnectivity failed, both calls of
\* demonstrateCredentials and both of demonstrateDiscovery were made, and
\* main completed.
C23_Witness ==
  /\ program = "main" /\ pc = "completed" /\ exitCode = "0"
  /\ Len(wire) = 7 /\ wire[3].outcome = "failed" /\ wire[3].method = "tools/call"
  /\ wire[6].method = "prompts/list"

\* The message of the error that executeTool catches when its fetch ended
\* as the operation `op` did.
ExecuteFailureMessage(op) ==
  IF op.phase = "unreachable" THEN FetchFailed.message
  ELSE IF op.phase = "undecodable" THEN SyntaxError.message
  ELSE <<"Failed to execute tool: ", op.toolName>>

SystemErrorMessage == Message("system", <<"An error occurred while processing your request.">>)

\* C24: executeTool of a connected MCPClient never rejects.  When its
\* request fails (the route answers non-2xx, the fetch rejects, the answer
\* is not JSON) it returns {content: {error: message}, isError: true}, and
\* otherwise a value with isError false.  In the page no handleSend ends in
\* its catch: a send whose tool calls ended, failed ones included, ends with
\* one tool message per tool and the assistant's response, and no message
\* is the system error message.
C24_ExecuteToolNeverRejects ==
  /\ [][\A s \in Slots :
          (program = "chat" /\ ops[s] # NoOp /\ ops[s].kind = "executeTool" /\ ops'[s] = NoOp) =>
            /\ lastOp'.kind = "executeTool"
            /\ lastOp'.outcome.kind = "return"
            /\ IF ops[s].phase = "answered" /\ AnswerOk(ops[s].answer)
               THEN lastOp'.outcome.value.isError = FALSE
               ELSE lastOp'.outcome.value =
                      [content |-> [error |-> ExecuteFailureMessage(ops[s])], isError |-> TRUE]]_vars
  /\ [](program = "page" =>
          /\ send.phase # "failed"
          /\ \A i \in DOMAIN page.messages : page.messages[i] # SystemErrorMessage)
  /\ [][(program = "page" /\ send.phase = "awaiting" /\ send'.phase # "awaiting") =>
         LET n == Len(send.toolsToInvoke)
             end == Len(page'.messages)
         IN /\ send'.phase = "done"
            /\ end = Len(page.messages) + n + 1
            /\ page'.messages[end].role = "assistant"
            /\ \A k \in 1..n :
                 /\ page'.messages[end - k].role = "tool"
                 /\ send'.results[k].isError \in BOOLEAN
                 /\ send'.results[k].isError =>
                      DOMAIN send'.results[k].content = {"error"}]_vars

\* A send of the page with two tool calls ended: the first call failed on an
\* answer that is not JSON, the second succeeded.
C24_Witness ==
  /\ program = "page" /\ send.phase = "done" /\ Len(send.toolsToInvoke) = 2
  /\ send.results[1] = [content |-> [error |-> SyntaxError.message], isError |-> TRUE]
  /\ ~send.results[2].isError
  /\ page.messages[Len(page.messages)].role = "assistant"
  /\ ~page.isLoading

\* A client that is not connected holds no tools.
HoldsNoToolsUnlessConnected(c) == (c.constructed /\ ~c.connected) => c.availableTools = <<>>

\* C25: whatever was called on an MCPClient, a disconnect while a connect
\* awaits its answer included, a client that is not connected holds an
\* empty tool list; a connect (or getAvailableTools) that throws leaves
\* `connected` and the tool list as they were; after disconnect the client
\* is not connected and its list is empty.
C25_DisconnectedHoldsNoTools ==
  /\ [](HoldsNoToolsUnlessConnected(mcp) /\ HoldsNoToolsUnlessConnected(connecting))
  /\ [](program = "chat" /\ lastOp.kind = "disconnect" =>
          ~mcp.connected /\ mcp.availableTools = <<>>)
  /\ [][\A s \in Slots :
          (program = "chat" /\ ops[s] # NoOp /\ ops[s].kind \in {"connect", "getAvailableTools"}
             /\ ops'[s] = NoOp /\ lastOp'.outcome.kind = "throw") =>
            (mcp'.connected = mcp.connected /\ mcp'.availableTools = mcp.availableTools)]_vars

\* disconnect was called while a connect awaits the answer of the route,
\* which has tools in it: the client is not connected, its list is empty,
\* and the connect goes on.
C25_Witness ==
  /\ program = "chat" /\ lastOp.kind = "disconnect"
  /\ \E s \in Slots :
       /\ ops[s] # NoOp /\ ops[s].kind = "connect" /\ ops[s].phase = "answered"
       /\ AnswerOk(ops[s].answer) /\ ops[s].answer.data.tools # <<>>
  /\ ~mcp.connected /\ mcp.availableTools = <<>>

\* The step appends a message of the user to the page's messages.
UserMessageAppended ==
  /\ Len(page'.messages) > Len(page.messages)
  /\ page'.messages[Len(page.messages) + 1].role = "user"

====
